---- MODULE Spec2Model ----
(***************************************************************************)
(* State-machine model of the core of modern-cpp-template: the integer     *)
(* addition tmp::add and the two build-information reporters               *)
(* (tmp::DumpBuildInfo of the library, DumpBuildInfo of the executable),   *)
(* writing to std::ostream sinks.                                          *)
(*                                                                         *)
(* Text is modelled as a sequence of one-character strings, so that        *)
(* concatenation, prefixes, substrings and lines are computed and not      *)
(* assumed.  The repository holds two revisions of the reporters: one      *)
(* reading the constants of namespace project (build = "constants") and    *)
(* one reading the preprocessor macros of the generated header             *)
(* (build = "macros").  Both are modelled; Init picks the one built.       *)
(***************************************************************************)
EXTENDS Integers, Sequences, FiniteSets, TLC

(***************************************************************************)
(* Bounds of the model.                                                    *)
(***************************************************************************)
\* add is called with arguments within Near of INT_MIN, of 0 and of INT_MAX.
Near == 1

\* A run makes at most MaxReports reporter calls.
MaxReports == 2

\* main is entered with 1..MaxArgc arguments.
MaxArgc == 2

\* A bounded sink accepts k * CapStep characters, k in 0..NumCaps, then fails.
CapStep == 19
NumCaps == 2

(***************************************************************************)
(* The int type of tmp::add (32-bit two's complement).                     *)
(***************************************************************************)
INT_MAX == 2147483647
INT_MIN == (-INT_MAX) - 1

IntSamples ==
  {INT_MIN + k : k \in 0 .. Near} \cup {k - Near : k \in 0 .. (2 * Near)}
    \cup {INT_MAX - k : k \in 0 .. Near} \cup {-5, 2, 5}

(***************************************************************************)
(* String literals of the reporters.                                       *)
(***************************************************************************)
LitTitle ==
  << "B", "u", "i", "l", "d", " ", "I", "n", "f", "o", "r", "m", "a", "t", "i", "o", "n",
     "\n" >>
LitUnderline ==
  << "-", "-", "-", "-", "-", "-", "-", "-", "-", "-", "-", "-", "-", "-", "-", "-", "-",
     "\n" >>
LitVersion == <<"V", "e", "r", "s", "i", "o", "n", " ", " ", ":", " ">>
LitBuild == <<"B", "u", "i", "l", "d", " ", " ", " ", " ", ":", " ">>
LitUser == <<"U", "s", "e", "r", " ", " ", " ", " ", " ", ":", " ">>
LitPlatform == <<"P", "l", "a", "t", "f", "o", "r", "m", " ", ":", " ">>
LitHost == <<"H", "o", "s", "t", " ", " ", " ", " ", " ", ":", " ">>
LitCompiler == <<"C", "o", "m", "p", "i", "l", "e", "r", " ", ":", " ">>
LitSource == <<"S", "o", "u", "r", "c", "e", " ", " ", " ", ":", " ">>
LitCommit == <<"C", "o", "m", "m", "i", "t", " ", " ", " ", ":", " ">>
LitOpenParen == <<" ", "(">>
LitCloseParenNl == <<")", "\n">>
LitAt == <<" ", "@", " ">>
LitSpace == <<" ">>
LitNl == <<"\n">>
LitNlNl == <<"\n", "\n">>

(***************************************************************************)
(* Sample values of the build-metadata fields.                             *)
(***************************************************************************)
StrEmpty == <<>>
StrVersion == <<"0", ".", "1", ".", "0">>
StrRelease == <<"R", "E", "L", "E", "A", "S", "E">>
StrUnknownUpper == <<"U", "N", "K", "N", "O", "W", "N">>
StrTimestamp ==
  << "2", "0", "2", "4", "-", "0", "1", "-", "0", "1", " ", "0", "0", ":", "0", "0", ":", "0",
     "0", " ", "U", "T", "C" >>
StrTimestampLater ==
  << "2", "0", "2", "4", "-", "0", "1", "-", "0", "1", " ", "0", "0", ":", "0", "0", ":", "0",
     "7", " ", "U", "T", "C" >>
StrUnknown == <<"u", "n", "k", "n", "o", "w", "n">>
StrNoGit == <<"n", "o", "-", "g", "i", "t">>
StrUserName == <<"d", "e", "v">>
StrHostDesc == <<"L", "i", "n", "u", "x", "-", "6", ".", "1">>
StrLinux == <<"L", "i", "n", "u", "x">>
StrArch == <<"x", "8", "6", "_", "6", "4">>
StrGNU == <<"G", "N", "U">>
StrCompilerVersion == <<"1", "3", ".", "2", ".", "0">>
StrDescribe == <<"v", "0", ".", "1", ".", "0", "-", "d", "i", "r", "t", "y">>
StrHash == <<"a", "b", "c", "1", "2", "3", "4">>
StrWordBuild == <<"B", "u", "i", "l", "d">>
StrWordHost == <<"H", "o", "s", "t">>
StrWordCommit == <<"C", "o", "m", "m", "i", "t", " ", " ", " ", ":", " ", "x">>
StrTwoLines == <<"a", "\n", "U", "s", "e", "r", " ", " ", " ", " ", " ", ":", " ", "b">>

(***************************************************************************)
(* The Build Metadata Record: the string constants the generated headers   *)
(* buildinfo_lib.hpp / buildinfo_bin.hpp and version.hpp supply.           *)
(***************************************************************************)
Fields ==
  { "version", "build_type", "build_timestamp", "build_user", "build_host",
    "target_system", "target_architecture", "host_system", "compiler_id",
    "compiler_version", "git_describe", "git_commit_hash" }

\* Every variable passed to the script, USER set, no Git repository.
RecScenario ==
  [ version |-> StrVersion, build_type |-> StrRelease, build_timestamp |-> StrTimestamp,
    build_user |-> StrUserName, build_host |-> StrHostDesc, target_system |-> StrLinux,
    target_architecture |-> StrArch, host_system |-> StrLinux, compiler_id |-> StrGNU,
    compiler_version |-> StrCompilerVersion, git_describe |-> StrNoGit,
    git_commit_hash |-> StrUnknown ]

\* No optional variable passed to the script, USER and USERNAME unset: the
\* values the script copies without a fallback are empty.
RecBare ==
  [ version |-> StrVersion, build_type |-> StrUnknownUpper, build_timestamp |-> StrTimestamp,
    build_user |-> StrUnknown, build_host |-> StrEmpty, target_system |-> StrEmpty,
    target_architecture |-> StrEmpty, host_system |-> StrEmpty, compiler_id |-> StrEmpty,
    compiler_version |-> StrEmpty, git_describe |-> StrNoGit,
    git_commit_hash |-> StrUnknown ]

\* Values that contain the words of the report's own labels.
RecTricky ==
  [ version |-> StrVersion, build_type |-> StrRelease, build_timestamp |-> StrTimestamp,
    build_user |-> StrWordBuild, build_host |-> StrWordHost, target_system |-> StrLinux,
    target_architecture |-> StrArch, host_system |-> StrLinux, compiler_id |-> StrGNU,
    compiler_version |-> StrCompilerVersion, git_describe |-> StrWordCommit,
    git_commit_hash |-> StrHash ]

\* A value that contains a line break.
RecTwoLines ==
  [ version |-> StrVersion, build_type |-> StrRelease, build_timestamp |-> StrTimestamp,
    build_user |-> StrTwoLines, build_host |-> StrHostDesc, target_system |-> StrLinux,
    target_architecture |-> StrArch, host_system |-> StrLinux, compiler_id |-> StrGNU,
    compiler_version |-> StrCompilerVersion, git_describe |-> StrDescribe,
    git_commit_hash |-> StrHash ]

Records == {RecScenario, RecBare, RecTricky, RecTwoLines}

\* The executable's header is generated by a run of its own of the same
\* script: it holds the library's values, or those of a later run.
Regenerated(rec) ==
  [ rec EXCEPT !.build_timestamp = StrTimestampLater, !.git_describe = StrDescribe,
               !.git_commit_hash = StrHash ]

Units == {"lib", "bin"}
Sinks == {"cout", "oss"}
Reporters == {"lib", "bin"}

(***************************************************************************)
(* State.                                                                  *)
(*   build    which revision of the reporters is compiled                  *)
(*   info     the metadata record baked into each translation unit        *)
(*   sink     the output streams: text written, badbit, capacity           *)
(*   call     the call in progress, or the last call made                  *)
(*   reports  the number of reporter calls begun                           *)
(*   log      the reporter calls that returned, oldest first               *)
(*   proc     the process of the executable: its arguments, its exit       *)
(*   thr      the threads that call the reporters concurrently             *)
(*   conf     the CMake configuration run that precedes the build          *)
(***************************************************************************)
VARIABLES build, info, sink, call, reports, log, proc, thr, conf

vars == <<build, info, sink, call, reports, log, proc, thr, conf>>

\* What the single-threaded callers of the core leave alone.
others == <<proc, thr, conf>>

(***************************************************************************)
(* tmp::add.  Signed overflow is undefined behaviour: a build either wraps *)
(* (a plain add instruction) or traps (-ftrapv, a sanitizer).              *)
(***************************************************************************)
NoOverflow(left, right) ==
  IF right >= 0 THEN left <= INT_MAX - right ELSE left >= INT_MIN - right

\* The value congruent to left + right modulo 2^32 in INT_MIN..INT_MAX, computed
\* without leaving that range.
Wrapped(left, right) ==
  IF NoOverflow(left, right) THEN left + right
  ELSE IF right > 0 THEN (left + INT_MIN) + (right + INT_MIN)
  ELSE (left - INT_MIN) + (right - INT_MIN)

\* add with its operator mistyped: left - right.
add_subtracts(left, right) ==
  IF NoOverflow(left, right) /\ right > INT_MIN /\ NoOverflow(left, 0 - right)
    THEN {[outcome |-> "return", value |-> left - right]}
    ELSE { [outcome |-> "return", value |-> Wrapped(left, right)],
           [outcome |-> "trap", value |-> 0] }

\* add that returns its first argument.
add_ignores_right(left, right) == {[outcome |-> "return", value |-> left]}

add(left, right) ==
  IF NoOverflow(left, right)
    THEN {[outcome |-> "return", value |-> left + right]}
    ELSE { [outcome |-> "return", value |-> Wrapped(left, right)],
           [outcome |-> "trap", value |-> 0] }

(***************************************************************************)
(* std::ostream << of a string or a character.  A stream whose badbit is   *)
(* set writes nothing; a stream whose buffer takes only part of the        *)
(* characters keeps that part and sets badbit.                             *)
(***************************************************************************)
\* A write that replaces the sink's content instead of appending to it.
ostream_insert_overwrites(s, str) ==
  IF s.failed THEN s ELSE [s EXCEPT !.text = str]

ostream_insert(s, str) ==
  IF s.failed THEN s
  ELSE LET room == IF s.bounded THEN s.capacity - Len(s.text) ELSE Len(str)
       IN  IF Len(str) <= room
             THEN [s EXCEPT !.text = @ \o str]
             ELSE [s EXCEPT !.text = @ \o SubSeq(str, 1, room), !.failed = TRUE]

(***************************************************************************)
(* The metadata constants as a translation unit reads them.                *)
(***************************************************************************)
version(unit) == info[unit].version
\* The build line interpolates the timestamp twice (a copy-paste slip).
build_type_is_timestamp(unit) == info[unit].build_timestamp

build_type(unit) == info[unit].build_type
\* The timestamp taken when the report is made, not when the header was made.
build_timestamp_at_call(unit) ==
  IF reports > 1 THEN StrTimestampLater ELSE info[unit].build_timestamp

build_timestamp(unit) == info[unit].build_timestamp
build_user(unit) == info[unit].build_user
build_host(unit) == info[unit].build_host
target_system(unit) == info[unit].target_system
target_architecture(unit) == info[unit].target_architecture
host_system(unit) == info[unit].host_system
compiler_id(unit) == info[unit].compiler_id
compiler_version(unit) == info[unit].compiler_version
git_describe(unit) == info[unit].git_describe
git_commit_hash(unit) == info[unit].git_commit_hash

(***************************************************************************)
(* The reporters, each as the sequence of its << insertions.  Adjacent     *)
(* string literals of the source are one literal, hence one insertion.     *)
(***************************************************************************)
\* tmp::DumpBuildInfo, library, constants of namespace project.
tmp_DumpBuildInfo ==
  << LitTitle,
     LitUnderline,
     LitVersion, version("lib"), LitNl,
     LitBuild, build_type("lib"), LitOpenParen, build_timestamp("lib"), LitCloseParenNl,
     LitUser, build_user("lib"), LitAt, build_host("lib"), LitNlNl,
     LitPlatform, target_system("lib"), LitSpace, target_architecture("lib"), LitNl,
     LitHost, host_system("lib"), LitNlNl,
     LitCompiler, compiler_id("lib"), LitSpace, compiler_version("lib"), LitNlNl,
     LitSource, git_describe("lib"), LitNl,
     LitCommit, git_commit_hash("lib"), LitNl >>

\* tmp::DumpBuildInfo, library, macros of buildinfo_lib.hpp.
tmp_DumpBuildInfo_macros ==
  << LitTitle \o LitUnderline \o LitBuild,
     build_type("lib"), LitOpenParen, build_timestamp("lib"),
     LitCloseParenNl \o LitUser,
     build_user("lib"), LitAt, build_host("lib"),
     LitNlNl \o LitPlatform,
     target_system("lib"), LitSpace, target_architecture("lib"),
     LitNl \o LitHost,
     host_system("lib"),
     LitNlNl \o LitCompiler,
     compiler_id("lib"), LitSpace, compiler_version("lib"),
     LitNlNl \o LitSource,
     git_describe("lib"), LitNl,
     LitCommit, git_commit_hash("lib"), LitNl >>

\* DumpBuildInfo of the executable, constants of namespace project.
DumpBuildInfo ==
  << LitTitle,
     LitUnderline,
     LitBuild, build_type("bin"), LitOpenParen, build_timestamp("bin"), LitCloseParenNl,
     LitUser, build_user("bin"), LitAt, build_host("bin"), LitNlNl,
     LitPlatform, target_system("bin"), LitSpace, target_architecture("bin"), LitNl,
     LitHost, host_system("bin"), LitNlNl,
     LitCompiler, compiler_id("bin"), LitSpace, compiler_version("bin"), LitNlNl,
     LitSource, git_describe("bin"), LitNl,
     LitCommit, git_commit_hash("bin"), LitNl >>

\* DumpBuildInfo of the executable, macros of buildinfo_bin.hpp.
DumpBuildInfo_macros ==
  << LitTitle \o LitUnderline \o LitBuild,
     build_type("bin"), LitOpenParen, build_timestamp("bin"),
     LitCloseParenNl \o LitUser,
     build_user("bin"), LitAt, build_host("bin"),
     LitNlNl \o LitPlatform,
     target_system("bin"), LitSpace, target_architecture("bin"),
     LitNl \o LitHost,
     host_system("bin"),
     LitNlNl \o LitCompiler,
     compiler_id("bin"), LitSpace, compiler_version("bin"),
     LitNlNl \o LitSource,
     git_describe("bin"), LitNl,
     LitCommit, git_commit_hash("bin"), LitNl >>

\* The reporter's body is empty.
Insertions_none(fn) == <<>>

\* The reporter repeats its last line (the Commit line).
Insertions_commit_twice(fn) ==
  LET p == IF build = "constants"
             THEN (IF fn = "lib" THEN tmp_DumpBuildInfo ELSE DumpBuildInfo)
             ELSE (IF fn = "lib" THEN tmp_DumpBuildInfo_macros ELSE DumpBuildInfo_macros)
  IN  p \o SubSeq(p, Len(p) - 2, Len(p))

\* The reporter writes the Commit line before the Source line.
Insertions_commit_first(fn) ==
  LET p == IF build = "constants"
             THEN (IF fn = "lib" THEN tmp_DumpBuildInfo ELSE DumpBuildInfo)
             ELSE (IF fn = "lib" THEN tmp_DumpBuildInfo_macros ELSE DumpBuildInfo_macros)
      n == Len(p)
  IN  SubSeq(p, 1, n - 6) \o SubSeq(p, n - 2, n) \o SubSeq(p, n - 5, n - 3)

\* The executable's reporter ends with one more line break than the library's.
Insertions_bin_extra_break(fn) ==
  LET p == IF build = "constants"
             THEN (IF fn = "lib" THEN tmp_DumpBuildInfo ELSE DumpBuildInfo)
             ELSE (IF fn = "lib" THEN tmp_DumpBuildInfo_macros ELSE DumpBuildInfo_macros)
  IN  IF fn = "bin" THEN Append(p, LitNl) ELSE p

\* The insertions of the reporter fn in the revision that is built.
Insertions(fn) ==
  IF build = "constants"
    THEN (IF fn = "lib" THEN tmp_DumpBuildInfo ELSE DumpBuildInfo)
    ELSE (IF fn = "lib" THEN tmp_DumpBuildInfo_macros ELSE DumpBuildInfo_macros)

(***************************************************************************)
(* Initial states.                                                         *)
(***************************************************************************)
Unbounded == [text |-> <<>>, failed |-> FALSE, bounded |-> FALSE, capacity |-> 0]

Bounded(n) == [text |-> <<>>, failed |-> FALSE, bounded |-> TRUE, capacity |-> n]

NoCall == [fn |-> "none"]

\* main has not been entered (the callers are tests or other programs).
NotStarted == [argc |-> 0, pc |-> 0, exited |-> FALSE, status |-> 0]

\* main has been entered with argc arguments.
Started(argc) == [argc |-> argc, pc |-> 1, exited |-> FALSE, status |-> 0]

\* The configuration run is over: the headers are generated and compiled in.
Configured == [phase |-> "built"]

InitBuild ==
  /\ build \in {"constants", "macros"}
  /\ info \in {[lib |-> r, bin |-> b] : <<r, b>> \in
                 {p \in Records \X (Records \cup {Regenerated(q) : q \in Records}) :
                    p[2] \in {p[1], Regenerated(p[1])}}}
  /\ call = NoCall
  /\ reports = 0
  /\ log = <<>>
  /\ thr = <<>>
  /\ conf = Configured

InitProgram ==
  /\ InitBuild
  /\ proc = NotStarted

\* main is entered; standard output takes every character or only so many.
InitMain ==
  /\ InitBuild
  /\ \E argc \in 1 .. MaxArgc : proc = Started(argc)
  /\ \/ sink = [s \in Sinks |-> Unbounded]
     \/ \E k \in 0 .. NumCaps :
          sink = [s \in Sinks |-> IF s = "cout" THEN Bounded(k * CapStep) ELSE Unbounded]

\* Every sink accepts whatever is written to it.
Init ==
  /\ InitProgram
  /\ sink = [s \in Sinks |-> Unbounded]

\* Standard output is a pipe or a file that takes only so many characters.
InitFail ==
  /\ InitProgram
  /\ \E k \in 0 .. NumCaps :
       sink = [s \in Sinks |-> IF s = "cout" THEN Bounded(k * CapStep) ELSE Unbounded]

(***************************************************************************)
(* Actions.                                                                *)
(***************************************************************************)
InReport == call.fn \in Reporters /\ ~call.done

Trapped == call.fn = "add" /\ call.outcome = "trap"

\* No call is in progress and no result is pending.
Idle == call.fn = "none" \/ (call.fn \in Reporters /\ call.done)

\* A caller evaluates add(left, right).
CallAdd ==
  /\ Idle
  /\ \E left \in IntSamples, right \in IntSamples :
       \E o \in add(left, right) :
         call' = [fn |-> "add", left |-> left, right |-> right,
                  outcome |-> o.outcome, value |-> o.value]
  /\ UNCHANGED <<build, info, sink, reports, log>>
  /\ UNCHANGED others

\* The caller has used the value add returned; a trapped process is dead.
UseResult ==
  /\ call.fn = "add"
  /\ ~Trapped
  /\ call' = NoCall
  /\ UNCHANGED <<build, info, sink, reports, log>>
  /\ UNCHANGED others

\* The reporter regenerates its unit's record when it is called.
CallDump_regenerates(fn, os) ==
  /\ Idle
  /\ reports < MaxReports
  /\ call' = [fn |-> fn, os |-> os, pc |-> 1, base |-> Len(sink[os].text), done |-> FALSE]
  /\ reports' = reports + 1
  /\ info' = [info EXCEPT ![fn] = Regenerated(@)]
  /\ UNCHANGED <<build, sink, log>>
  /\ UNCHANGED others

\* A caller calls the reporter fn on the sink os.
CallDump(fn, os) ==
  /\ Idle
  /\ reports < MaxReports
  /\ call' = [fn |-> fn, os |-> os, pc |-> 1, base |-> Len(sink[os].text), done |-> FALSE]
  /\ reports' = reports + 1
  /\ UNCHANGED <<build, info, sink, log>>
  /\ UNCHANGED others

\* The reporter clears the stream's error state before each insertion.
Insert_clears_failure ==
  /\ InReport
  /\ call.pc <= Len(Insertions(call.fn))
  /\ sink' = [sink EXCEPT ![call.os] =
                ostream_insert([@ EXCEPT !.failed = FALSE], Insertions(call.fn)[call.pc])]
  /\ call' = [call EXCEPT !.pc = @ + 1]
  /\ UNCHANGED <<build, info, reports, log>>
  /\ UNCHANGED others

\* The reporter executes its next << insertion.
Insert ==
  /\ InReport
  /\ call.pc <= Len(Insertions(call.fn))
  /\ sink' = [sink EXCEPT ![call.os] = ostream_insert(@, Insertions(call.fn)[call.pc])]
  /\ call' = [call EXCEPT !.pc = @ + 1]
  /\ UNCHANGED <<build, info, reports, log>>
  /\ UNCHANGED others

\* The reporter returns.
Return ==
  /\ InReport
  /\ call.pc = Len(Insertions(call.fn)) + 1
  /\ call' = [call EXCEPT !.done = TRUE]
  /\ log' = Append(log, [fn |-> call.fn, os |-> call.os, base |-> call.base,
                         end |-> Len(sink[call.os].text), ok |-> ~sink[call.os].failed])
  /\ UNCHANGED <<build, info, sink, reports>>
  /\ UNCHANGED others

Next ==
  \/ CallAdd
  \/ UseResult
  \/ \E fn \in Reporters, os \in Sinks : CallDump(fn, os)
  \/ Insert
  \/ Return

Spec == Init /\ [][Next]_vars

(***************************************************************************)
(* main of the executable: tmp::DumpBuildInfo(); DumpBuildInfo(); return 0 *)
(* with the default sink std::cout.  argc and argv are not read.           *)
(***************************************************************************)
main_CallLibrary ==
  /\ proc.pc = 1
  /\ call' = [fn |-> "lib", os |-> "cout", pc |-> 1, base |-> Len(sink["cout"].text),
              done |-> FALSE]
  /\ reports' = reports + 1
  /\ proc' = [proc EXCEPT !.pc = 2]
  /\ UNCHANGED <<build, info, sink, log, thr, conf>>

main_CallExecutable ==
  /\ proc.pc = 2
  /\ call.done
  /\ call' = [fn |-> "bin", os |-> "cout", pc |-> 1, base |-> Len(sink["cout"].text),
              done |-> FALSE]
  /\ reports' = reports + 1
  /\ proc' = [proc EXCEPT !.pc = 3]
  /\ UNCHANGED <<build, info, sink, log, thr, conf>>

\* main returns a status other than 0.
main_Return_nonzero ==
  /\ proc.pc = 3
  /\ call.done
  /\ proc' = [proc EXCEPT !.pc = 4, !.exited = TRUE, !.status = 1]
  /\ UNCHANGED <<build, info, sink, call, reports, log, thr, conf>>

main_Return ==
  /\ proc.pc = 3
  /\ call.done
  /\ proc' = [proc EXCEPT !.pc = 4, !.exited = TRUE, !.status = 0]
  /\ UNCHANGED <<build, info, sink, call, reports, log, thr, conf>>

NextMain ==
  \/ main_CallLibrary
  \/ main_CallExecutable
  \/ Insert
  \/ Return
  \/ main_Return

\* The process is scheduled until it exits.
SpecMain == InitMain /\ [][NextMain]_vars /\ WF_vars(NextMain)

NextFail ==
  \/ \E fn \in Reporters, os \in Sinks : CallDump(fn, os)
  \/ Insert
  \/ Return

SpecFail == InitFail /\ [][NextFail]_vars

(***************************************************************************)
(* Properties of tmp::add.                                                 *)
(***************************************************************************)
AddCalled == call.fn = "add"

\* C1: for all integers whose mathematical sum is representable in int,
\* add(left, right) returns exactly left + right; add(1, 2) = 3, add(-5, 5) = 0.
C1_AddReturnsSum ==
  (AddCalled /\ NoOverflow(call.left, call.right)) =>
    /\ call.outcome = "return"
    /\ call.value = call.left + call.right
    /\ (call.left = 1 /\ call.right = 2 => call.value = 3)
    /\ (call.left = -5 /\ call.right = 5 => call.value = 0)

C1_Witness ==
  AddCalled /\ call.left = 1 /\ call.right = 2 /\ call.outcome = "return" /\ call.value = 3

\* C2: for every pair of ints, overflowing pairs included, add completes and
\* returns the two's-complement wraparound of left + right.
C2_AddAlwaysWraps ==
  AddCalled => (call.outcome = "return" /\ call.value = Wrapped(call.left, call.right))

\* C3: for arguments whose sum is representable, add is commutative (the call
\* made returns what the call with the arguments swapped returns) and 0 is
\* its identity.
C3_AddCommutativeIdentity ==
  (AddCalled /\ NoOverflow(call.left, call.right)) =>
    /\ call.outcome = "return"
    /\ \A o \in add(call.right, call.left) :
         o.outcome = "return" /\ o.value = call.value
    /\ (call.right = 0 => call.value = call.left)

C3_Witness ==
  /\ AddCalled /\ call.outcome = "return"
  /\ call.left = INT_MAX /\ call.right = 0 /\ call.value = INT_MAX

\* C4: a call of add changes no program state (no sink, no metadata field, no
\* record of the reporters) and has no error outcome, whatever its arguments.
C4_AddPureTotal ==
  [][CallAdd => /\ call'.outcome = "return"
                /\ UNCHANGED <<build, info, sink, reports, log, proc, thr, conf>>]_vars

(***************************************************************************)
(* Reading the text of a report.                                           *)
(***************************************************************************)
\* What the logged call e appended to its sink.
Out(e) == SubSeq(sink[e.os].text, e.base + 1, e.end)

\* The reporter call in progress or just returned has appended this so far.
Appended == SubSeq(sink[call.os].text, call.base + 1, Len(sink[call.os].text))

\* A reporter call has just returned without its sink having failed.
Returned == call.fn \in Reporters /\ call.done /\ ~sink[call.os].failed

\* p occurs in t at position i.
OccursAt(t, i, p) == i + Len(p) - 1 <= Len(t) /\ SubSeq(t, i, i + Len(p) - 1) = p

HasPrefix(t, p) == OccursAt(t, 1, p)

\* The number of occurrences of p in t.
Count(t, p) == Cardinality({i \in 1 .. Len(t) : OccursAt(t, i, p)})

\* The positions of t at which a line begins.
LineStarts(t) ==
  {i \in 1 .. Len(t) : i = 1 \/ t[i - 1] = "\n"}

\* The number of lines of t that begin with p.
CountLines(t, p) == Cardinality({i \in LineStarts(t) : OccursAt(t, i, p)})

\* The values the reporter fn interpolates contain no line break.
SingleLineValues(fn) ==
  \A f \in Fields :
    (fn = "lib" \/ f # "version") => \A i \in 1 .. Len(info[fn][f]) : info[fn][f][i] # "\n"

(***************************************************************************)
(* Properties of the reporters.                                            *)
(***************************************************************************)
\* C5: for a sink that does not fail and any metadata record, the text one
\* DumpBuildInfo call appends is never empty.
C5_OutputNotEmpty ==
  \A k \in 1 .. Len(log) : log[k].ok => log[k].end > log[k].base

\* A call on the unbounded sink wrote a report of a record with empty values,
\* and a call on the sink that takes no character wrote nothing.
C5_Witness ==
  /\ info.lib = RecBare
  /\ \E k \in 1 .. Len(log) : log[k].ok /\ log[k].end > log[k].base
  /\ \E k \in 1 .. Len(log) : ~log[k].ok /\ log[k].end = log[k].base

Labels ==
  { <<"B", "u", "i", "l", "d", " ", "I", "n", "f", "o", "r", "m", "a", "t", "i", "o", "n">>,
    <<"B", "u", "i", "l", "d">>, <<"U", "s", "e", "r">>,
    <<"P", "l", "a", "t", "f", "o", "r", "m">>, <<"H", "o", "s", "t">>,
    <<"C", "o", "m", "p", "i", "l", "e", "r">>, <<"S", "o", "u", "r", "c", "e">>,
    <<"C", "o", "m", "m", "i", "t">> }

\* C6 as stated: the output of one call contains each section label exactly
\* once, for every metadata record.
C6_EachLabelOnce ==
  Returned => \A l \in Labels : Count(Appended, l) = 1

LineLabels ==
  {LitTitle, LitBuild, LitUser, LitPlatform, LitHost, LitCompiler, LitSource, LitCommit}

\* C6 as amended: when no interpolated value contains a line break, the output
\* of one call has exactly one line "Build Information" and exactly one line
\* beginning with each of the padded labels "Build    : ", "User     : ",
\* "Platform : ", "Host     : ", "Compiler : ", "Source   : ", "Commit   : ".
C6_EachLabelledLineOnce ==
  (Returned /\ SingleLineValues(call.fn)) =>
    \A l \in LineLabels : CountLines(Appended, l) = 1

\* A report whose values contain the words Build, Host and Commit.
C6_Witness ==
  /\ Returned
  /\ info[call.fn] = RecTricky
  /\ Count(Appended, <<"H", "o", "s", "t">>) = 2
  /\ CountLines(Appended, LitHost) = 1

\* s without its last character.
Chomp(s) == SubSeq(s, 1, Len(s) - 1)

RECURSIVE Unlines(_)
\* The lines ls, each ended by a line break, as one text.
Unlines(ls) == IF ls = <<>> THEN <<>> ELSE Head(ls) \o LitNl \o Unlines(Tail(ls))

\* The lines of a report in the order the specification lists them, for the
\* record r, with or without the version line.
ReportLines(r, withVersion) ==
  << Chomp(LitTitle), Chomp(LitUnderline) >>
    \o (IF withVersion THEN << LitVersion \o r.version >> ELSE << >>)
    \o << LitBuild \o r.build_type \o LitOpenParen \o r.build_timestamp \o <<")">>,
          LitUser \o r.build_user \o LitAt \o r.build_host,
          << >>,
          LitPlatform \o r.target_system \o LitSpace \o r.target_architecture,
          LitHost \o r.host_system,
          << >>,
          LitCompiler \o r.compiler_id \o LitSpace \o r.compiler_version,
          << >>,
          LitSource \o r.git_describe,
          LitCommit \o r.git_commit_hash >>

\* C7: on every call DumpBuildInfo emits title, underline, (version line when
\* present), Build, User, blank, Platform, Host, blank, Compiler, blank,
\* Source, Commit in this order: what a call has written so far is always a
\* beginning of that text, and at its return it is the whole of it.
C7_FixedSectionOrder ==
  (call.fn \in Reporters /\ ~sink[call.os].failed) =>
    \E v \in (IF call.fn = "lib" THEN BOOLEAN ELSE {FALSE}) :
      LET whole == Unlines(ReportLines(info[call.fn], v))
      IN  /\ HasPrefix(whole, Appended)
          /\ call.done => Appended = whole

\* A second report, on a sink that holds the first, is complete and in order.
C7_Witness ==
  /\ Returned
  /\ call.fn = "lib" /\ build = "constants" /\ call.base > 0
  /\ info.lib = RecTwoLines
  /\ Appended = Unlines(ReportLines(RecTwoLines, TRUE))

\* C8: for a fixed metadata record, any two calls of the same reporter whose
\* sinks did not fail produce identical output, whatever was called before.
C8_Deterministic ==
  \A j \in 1 .. Len(log), k \in 1 .. Len(log) :
    (log[j].fn = log[k].fn /\ log[j].ok /\ log[k].ok) => Out(log[j]) = Out(log[k])

\* Two calls of the library's reporter, each on a fresh empty sink.
C8_Witness ==
  /\ Len(log) = 2
  /\ log[1].fn = "lib" /\ log[2].fn = "lib"
  /\ log[1].os # log[2].os /\ log[1].base = 0 /\ log[2].base = 0
  /\ log[1].ok /\ log[2].ok
  /\ Out(log[1]) = Out(log[2]) /\ Len(Out(log[2])) > 0

\* C9: the library's reporter always writes the line "Version  : <version>"
\* between the underline and the Build line, and the executable's reporter
\* never writes a line beginning with "Version  : ".
C9_VersionLineInLibraryOnly ==
  Returned =>
    IF call.fn = "lib"
      THEN HasPrefix(Appended, LitTitle \o LitUnderline \o LitVersion \o info.lib.version
                                 \o LitNl \o LitBuild)
      ELSE CountLines(Appended, LitVersion) = 0

\* t without its third line when that line begins with "Version  : ".
WithoutVersionLine(t) ==
  LET head == LitTitle \o LitUnderline
      from == Len(head) + 1
  IN  IF HasPrefix(t, head \o LitVersion)
        THEN LET nl == CHOOSE i \in from .. Len(t) :
                         t[i] = "\n" /\ \A j \in from .. (i - 1) : t[j] # "\n"
             IN  head \o SubSeq(t, nl + 1, Len(t))
        ELSE t

\* C10: given the same metadata record, the output of the executable's
\* reporter equals the output of the library's reporter with the version line
\* removed.
C10_ExecutableEqualsLibraryMinusVersion ==
  \A j \in 1 .. Len(log), k \in 1 .. Len(log) :
    (log[j].fn = "lib" /\ log[k].fn = "bin" /\ log[j].ok /\ log[k].ok /\ info.lib = info.bin)
      => Out(log[k]) = WithoutVersionLine(Out(log[j]))

\* Both reporters ran on the same record and the library's output is longer.
C10_Witness ==
  /\ build = "constants" /\ info.lib = info.bin /\ info.lib = RecScenario
  /\ Len(log) = 2 /\ log[1].fn = "lib" /\ log[2].fn = "bin" /\ log[1].os = log[2].os
  /\ log[1].ok /\ log[2].ok
  /\ Len(Out(log[1])) > Len(Out(log[2]))
  /\ Out(log[2]) = WithoutVersionLine(Out(log[1]))

ScenarioBuildLine ==
  << "B", "u", "i", "l", "d", " ", " ", " ", " ", ":", " ", "R", "E", "L", "E", "A", "S", "E",
     " ", "(", "2", "0", "2", "4", "-", "0", "1", "-", "0", "1", " ", "0", "0", ":", "0", "0",
     ":", "0", "0", " ", "U", "T", "C", ")" >>
ScenarioCommitLine ==
  << "C", "o", "m", "m", "i", "t", " ", " ", " ", ":", " ", "u", "n", "k", "n", "o", "w", "n" >>

\* C11: for every metadata record the report contains the line
\* "Build    : " + build_type + " (" + build_timestamp + ")" and the line
\* "Commit   : " + git_commit_hash, the values interpolated verbatim; for
\* RELEASE, 2024-01-01 00:00:00 UTC and unknown these are
\* "Build    : RELEASE (2024-01-01 00:00:00 UTC)" and "Commit   : unknown".
C11_BuildAndCommitLines ==
  Returned =>
    LET r == info[call.fn]
        buildLine == LitBuild \o r.build_type \o <<" ", "(">> \o r.build_timestamp
                       \o <<")", "\n">>
        commitLine == LitCommit \o r.git_commit_hash \o <<"\n">>
    IN  /\ \E i \in LineStarts(Appended) : OccursAt(Appended, i, buildLine)
        /\ \E i \in LineStarts(Appended) : OccursAt(Appended, i, commitLine)
        /\ (/\ r.build_type = StrRelease /\ r.build_timestamp = StrTimestamp
            /\ r.git_commit_hash = StrUnknown)
             => /\ Count(Appended, ScenarioBuildLine) = 1
                /\ Count(Appended, ScenarioCommitLine) = 1

\* The report of the scenario's record holds the scenario's two substrings.
C11_Witness ==
  /\ Returned
  /\ info[call.fn] = RecScenario
  /\ Count(Appended, ScenarioBuildLine) = 1
  /\ Count(Appended, ScenarioCommitLine) = 1

\* C12: DumpBuildInfo only appends to the sink it is given: every step of a
\* call leaves the sink's previous content as a prefix of its new content and
\* changes no other sink and no metadata field; at the return the sink holds
\* its content at the call followed by the report.
C12_AppendsToItsSinkOnly ==
  [][(call.fn \in Reporters /\ call'.fn \in Reporters) =>
       /\ info' = info
       /\ \A s \in Sinks :
            /\ HasPrefix(sink'[s].text, sink[s].text)
            /\ (s # call'.os) => sink'[s] = sink[s]
       /\ (call'.done /\ ~call.done /\ ~sink[call.os].failed) =>
            \E v \in BOOLEAN :
              SubSeq(sink'[call.os].text, call.base + 1, Len(sink'[call.os].text))
                = Unlines(ReportLines(info[call.fn], v))]_vars

\* A call returned on a sink that held an earlier report: the earlier report
\* is still there, followed by the new one.
C12_Witness ==
  /\ Returned /\ Len(log) = 2
  /\ call.base > 0 /\ log[1].os = call.os /\ log[1].end = call.base
  /\ SubSeq(sink[call.os].text, 1, call.base) = Unlines(ReportLines(info[log[1].fn], TRUE))
  /\ Len(sink[call.os].text) > call.base

\* C13: a sink that has failed, before the call or part-way through it, stays
\* failed and receives nothing more; the reporter raises no error of its own:
\* it goes on to its return.
C13_FailureKept ==
  /\ [][\A s \in Sinks :
          sink[s].failed => (sink'[s].failed /\ sink'[s].text = sink[s].text)]_vars
  /\ [](InReport => ENABLED (Insert \/ Return))

\* Returned calls on a failed sink: one that failed part-way through the
\* report, and one that began on the sink already failed.
C13_Witness ==
  /\ Len(log) = 2
  /\ log[1].os = "cout" /\ ~log[1].ok /\ log[1].end > log[1].base
  /\ log[2].os = "cout" /\ ~log[2].ok /\ log[2].end = log[2].base
  /\ sink["cout"].failed
  /\ call.done

\* C14: for every argument list, main prints the report to standard output
\* (the library's report, then the executable's) and then terminates with
\* exit status 0; it always terminates, also when standard output fails.
C14_MainPrintsAndExitsZero ==
  /\ [](proc.exited =>
         /\ proc.status = 0
         /\ ~sink["cout"].failed =>
              sink["cout"].text = Unlines(ReportLines(info.lib, build = "constants"))
                                    \o Unlines(ReportLines(info.bin, FALSE)))
  /\ <>proc.exited

\* main was entered with two arguments, printed both reports and exited.
C14_Witness ==
  /\ proc.exited /\ proc.status = 0 /\ proc.argc = 2
  /\ ~sink["cout"].failed
  /\ Len(log) = 2 /\ log[1].fn = "lib" /\ log[2].fn = "bin"
  /\ Len(sink["cout"].text) = log[2].end /\ log[2].end > log[2].base

(***************************************************************************)
(* The build-info generation script, cmake/buildinfo.script.cmake: run by  *)
(* cmake -P with -D variables, the environment, and the Git it finds.      *)
(***************************************************************************)
StrDebugMixed == <<"D", "e", "b", "u", "g">>
StrOffLower == <<"o", "f", "f">>
StrNLower == <<"n">>
StrNotFoundMixed == <<"l", "i", "b", "-", "N", "o", "t", "F", "o", "u", "n", "d">>
StrUserUpper == <<"D", "E", "V">>
StrHashOutput == <<"a", "b", "c", "1", "2", "3", "4", "\n">>
StrDescribeOutput == <<"v", "0", ".", "1", ".", "0", "-", "d", "i", "r", "t", "y", "\n">>
StrOFF == <<"O", "F", "F">>
StrNO == <<"N", "O">>
StrFALSE == <<"F", "A", "L", "S", "E">>
StrN == <<"N">>
StrZero == <<"0">>
StrIGNORE == <<"I", "G", "N", "O", "R", "E">>
StrNOTFOUND == <<"N", "O", "T", "F", "O", "U", "N", "D">>
StrDashNOTFOUND == <<"-", "N", "O", "T", "F", "O", "U", "N", "D">>
LowerCase ==
  << "a", "b", "c", "d", "e", "f", "g", "h", "i", "j", "k", "l", "m", "n", "o", "p", "q", "r",
     "s", "t", "u", "v", "w", "x", "y", "z" >>
UpperCase ==
  << "A", "B", "C", "D", "E", "F", "G", "H", "I", "J", "K", "L", "M", "N", "O", "P", "Q", "R",
     "S", "T", "U", "V", "W", "X", "Y", "Z" >>
Whitespace == {" ", "\t", "\n", "\r"}

\* A CMake variable or environment variable: not defined, or defined with a value.
Undefined == [def |-> FALSE, val |-> <<>>]

Defined(value) == [def |-> TRUE, val |-> value]

\* "${VAR}" and "$ENV{VAR}": the value, or the empty string when not defined.
Expand(var) == IF var.def THEN var.val ELSE <<>>

\* string(TOUPPER ...): each lower-case letter is replaced, the rest is kept.
ToUpperChar(c) ==
  IF \E i \in 1 .. Len(LowerCase) : LowerCase[i] = c
    THEN UpperCase[CHOOSE i \in 1 .. Len(LowerCase) : LowerCase[i] = c]
    ELSE c

ToUpper(str) == [i \in 1 .. Len(str) |-> ToUpperChar(str[i])]

HasSuffix(str, suffix) ==
  /\ Len(suffix) <= Len(str)
  /\ SubSeq(str, Len(str) - Len(suffix) + 1, Len(str)) = suffix

\* if(NOT var): true when the variable's value is one of CMake's false
\* constants (compared without regard to case) or ends in -NOTFOUND.
IsFalseConstant(value) ==
  \/ ToUpper(value) \in {StrEmpty, StrZero, StrOFF, StrNO, StrFALSE, StrN, StrIGNORE,
                         StrNOTFOUND}
  \/ HasSuffix(value, StrDashNOTFOUND)

\* OUTPUT_STRIP_TRAILING_WHITESPACE.
RECURSIVE StripTrailingWhitespace(_)
StripTrailingWhitespace(str) ==
  IF str # <<>> /\ str[Len(str)] \in Whitespace
    THEN StripTrailingWhitespace(SubSeq(str, 1, Len(str) - 1))
    ELSE str

\* The variables the caller may pass with -D, and the values they have when passed.
ScriptVars ==
  { "CMAKE_CXX_COMPILER_ID", "CMAKE_CXX_COMPILER_VERSION", "CMAKE_HOST_SYSTEM",
    "CMAKE_HOST_SYSTEM_NAME", "CMAKE_SYSTEM_NAME", "CMAKE_SYSTEM_PROCESSOR" }

PassedValue ==
  [ CMAKE_CXX_COMPILER_ID |-> StrGNU, CMAKE_CXX_COMPILER_VERSION |-> StrCompilerVersion,
    CMAKE_HOST_SYSTEM |-> StrHostDesc, CMAKE_HOST_SYSTEM_NAME |-> StrLinux,
    CMAKE_SYSTEM_NAME |-> StrLinux, CMAKE_SYSTEM_PROCESSOR |-> StrArch ]

BuildTypeInputs ==
  {Undefined} \cup {Defined(v) : v \in {StrEmpty, StrDebugMixed, StrRelease, StrOffLower,
                                        StrNLower, StrNotFoundMixed}}

EnvInputs == {Undefined, Defined(StrEmpty), Defined(StrUserName), Defined(StrUserUpper)}

\* What a Git command prints: nothing when it fails, else a line.
RevParseOutputs == {StrEmpty, StrHashOutput}

DescribeOutputs == {StrEmpty, StrDescribeOutput}

ScriptInputs ==
  [ CMAKE_BUILD_TYPE : BuildTypeInputs, passed : SUBSET ScriptVars,
    USER : EnvInputs, USERNAME : {Undefined, Defined(StrUserUpper)},
    GIT_FOUND : BOOLEAN, dotgit : BOOLEAN,
    rev_parse : RevParseOutputs, describe : DescribeOutputs,
    clock : {StrTimestamp} ]

\* "${name}" for one of the -D variables.
Var(in, name) == IF name \in in.passed THEN PassedValue[name] ELSE StrEmpty

script_build_type(in) ==
  LET _build_type_upper == ToUpper(Expand(in.CMAKE_BUILD_TYPE))
  IN  IF IsFalseConstant(_build_type_upper) THEN StrUnknownUpper ELSE _build_type_upper

\* find_package(Git REQUIRED) in place of QUIET: no Git, no header.
script_git_required(in) ==
  IF in.GIT_FOUND /\ in.dotgit
    THEN [ aborted |-> FALSE,
           _git_hash |-> StripTrailingWhitespace(in.rev_parse),
           _git_describe |-> StripTrailingWhitespace(in.describe) ]
    ELSE [aborted |-> ~in.GIT_FOUND, _git_hash |-> StrUnknown, _git_describe |-> StrNoGit]

script_git(in) ==
  IF in.GIT_FOUND /\ in.dotgit
    THEN [ aborted |-> FALSE,
           _git_hash |-> StripTrailingWhitespace(in.rev_parse),
           _git_describe |-> StripTrailingWhitespace(in.describe) ]
    ELSE [aborted |-> FALSE, _git_hash |-> StrUnknown, _git_describe |-> StrNoGit]

script_build_user(in) ==
  IF in.USER.def THEN Expand(in.USER)
  ELSE IF in.USERNAME.def THEN Expand(in.USERNAME)
  ELSE StrUnknown

HeaderFields == Fields \ {"version"}

\* The whole script: the values of the macros it writes to ${OUTPUT}.
buildinfo_script(in) ==
  LET git == script_git(in)
  IN  [ aborted |-> git.aborted,
        header |->
          [ build_timestamp |-> in.clock,
            build_type |-> script_build_type(in),
            build_user |-> script_build_user(in),
            build_host |-> Var(in, "CMAKE_HOST_SYSTEM"),
            target_system |-> Var(in, "CMAKE_SYSTEM_NAME"),
            target_architecture |-> Var(in, "CMAKE_SYSTEM_PROCESSOR"),
            host_system |-> Var(in, "CMAKE_HOST_SYSTEM_NAME"),
            compiler_id |-> Var(in, "CMAKE_CXX_COMPILER_ID"),
            compiler_version |-> Var(in, "CMAKE_CXX_COMPILER_VERSION"),
            git_commit_hash |-> git._git_hash,
            git_describe |-> git._git_describe ] ]

\* cmake -P buildinfo.script.cmake is about to run on some inputs.
InitScript ==
  /\ build = "macros"
  /\ info = [lib |-> RecScenario, bin |-> RecScenario]
  /\ sink = [s \in Sinks |-> Unbounded]
  /\ call = NoCall
  /\ reports = 0
  /\ log = <<>>
  /\ proc = NotStarted
  /\ thr = <<>>
  /\ \E in \in ScriptInputs : conf = [phase |-> "script", in |-> in]

RunScript ==
  /\ conf.phase = "script"
  /\ LET out == buildinfo_script(conf.in)
     IN  conf' = IF out.aborted
                   THEN [phase |-> "aborted", in |-> conf.in]
                   ELSE [phase |-> "written", in |-> conf.in, header |-> out.header]
  /\ UNCHANGED <<build, info, sink, call, reports, log, proc, thr>>

NextScript == RunScript

SpecScript == InitScript /\ [][NextScript]_vars

\* C15: every field the script writes is a non-empty string, whatever the
\* inputs (variables passed or not, environment set, empty or unset, Git
\* found or not, Git commands succeeding or failing).
C15_EveryFieldNonEmpty ==
  conf.phase = "written" => \A f \in HeaderFields : conf.header[f] # <<>>

\* C18: without Git or without .git the script does not abort, writes the
\* header, and sets the hash to "unknown" and the description to "no-git";
\* with Git and .git both fields hold what the Git commands printed (the
\* line without its trailing line break).
C18_GitSentinels ==
  conf.phase # "script" =>
    /\ conf.phase = "written"
    /\ IF conf.in.GIT_FOUND /\ conf.in.dotgit
         THEN /\ conf.header.git_commit_hash = StripTrailingWhitespace(conf.in.rev_parse)
              /\ conf.header.git_describe = StripTrailingWhitespace(conf.in.describe)
         ELSE /\ conf.header.git_commit_hash = StrUnknown
              /\ conf.header.git_describe = StrNoGit

C18_Witness ==
  /\ conf.phase = "written"
  /\ ~conf.in.GIT_FOUND
  /\ conf.in.dotgit
  /\ conf.header.git_commit_hash = StrUnknown
  /\ conf.header.git_describe = StrNoGit

LowerCaseLetters == {LowerCase[i] : i \in 1 .. Len(LowerCase)}

\* C19: the build type written is the upper-cased CMAKE_BUILD_TYPE when that
\* is non-empty and "UNKNOWN" when it is undefined or empty; it is never
\* empty and holds no lower-case letter.
C19_BuildTypeUpperCased ==
  conf.phase = "written" =>
    LET given == Expand(conf.in.CMAKE_BUILD_TYPE)
        written == conf.header.build_type
    IN  /\ given # <<>> => written = ToUpper(given)
        /\ given = <<>> => written = StrUnknownUpper
        /\ written # <<>>
        /\ \A i \in 1 .. Len(written) : written[i] \notin LowerCaseLetters

\* C16: the metadata record is write-once: no step of add or of either
\* reporter (call, insertion, return) changes the value of any field.
C16_RecordWriteOnce == [][info' = info]_vars

\* A reporter has run to its return and add has returned after it; the
\* records still hold the values the build gave them.
C16_Witness ==
  /\ call.fn = "add" /\ call.outcome = "return"
  /\ Len(log) = 1 /\ log[1].ok
  /\ info.lib = RecScenario /\ info.bin = Regenerated(RecScenario)

(***************************************************************************)
(* Concurrent callers: each thread calls one of the functions once, a      *)
(* reporter on a std::ostringstream of its own.  A step of a thread is one *)
(* << insertion (or the one addition); the scheduler picks any thread.     *)
(***************************************************************************)
NumThreads == 2

Threads == 1 .. NumThreads

\* The calls a thread may make.
ThreadCalls ==
  << [fn |-> "lib", left |-> 0, right |-> 0], [fn |-> "bin", left |-> 0, right |-> 0],
     [fn |-> "add", left |-> 1, right |-> 2], [fn |-> "add", left |-> INT_MAX, right |-> 1] >>

Frame(c) ==
  [ fn |-> c.fn, left |-> c.left, right |-> c.right, pc |-> 1, done |-> FALSE,
    outcome |-> "none", value |-> 0, os |-> Unbounded ]

InitConc ==
  /\ build \in {"constants", "macros"}
  /\ info = [lib |-> RecScenario, bin |-> Regenerated(RecScenario)]
  /\ sink = [s \in Sinks |-> Unbounded]
  /\ call = NoCall
  /\ reports = 0
  /\ log = <<>>
  /\ proc = NotStarted
  /\ conf = Configured
  /\ \E k \in [Threads -> 1 .. Len(ThreadCalls)] :
       \* threads are interchangeable: one order of each combination of calls
       /\ \A t \in Threads \ {1} : k[t - 1] <= k[t]
       /\ thr = [t \in Threads |-> Frame(ThreadCalls[k[t]])]

\* An overflow trap in one thread ends the whole process.
ProcessDead == \E t \in DOMAIN thr : thr[t].outcome = "trap"

\* Every thread writes to the stream of the first thread, whatever stream
\* it was given.
ThreadInsert_into_first_sink(t) ==
  /\ ~ProcessDead
  /\ thr[t].fn \in Reporters
  /\ thr[t].pc <= Len(Insertions(thr[t].fn))
  /\ thr' = [thr EXCEPT ![1].os = ostream_insert(@, Insertions(thr[t].fn)[thr[t].pc]),
                        ![t].pc = @ + 1]
  /\ UNCHANGED <<build, info, sink, call, reports, log, proc, conf>>

\* Thread t executes the next << insertion of its reporter.
ThreadInsert(t) ==
  /\ ~ProcessDead
  /\ thr[t].fn \in Reporters
  /\ thr[t].pc <= Len(Insertions(thr[t].fn))
  /\ thr' = [thr EXCEPT ![t].os = ostream_insert(@, Insertions(thr[t].fn)[thr[t].pc]),
                        ![t].pc = @ + 1]
  /\ UNCHANGED <<build, info, sink, call, reports, log, proc, conf>>

\* The reporter of thread t returns.
ThreadReturn(t) ==
  /\ ~ProcessDead
  /\ thr[t].fn \in Reporters
  /\ ~thr[t].done
  /\ thr[t].pc = Len(Insertions(thr[t].fn)) + 1
  /\ thr' = [thr EXCEPT ![t].done = TRUE]
  /\ UNCHANGED <<build, info, sink, call, reports, log, proc, conf>>

\* Thread t evaluates add(left, right).
ThreadAdd(t) ==
  /\ ~ProcessDead
  /\ thr[t].fn = "add"
  /\ ~thr[t].done
  /\ \E o \in add(thr[t].left, thr[t].right) :
       thr' = [thr EXCEPT ![t].done = TRUE, ![t].outcome = o.outcome, ![t].value = o.value]
  /\ UNCHANGED <<build, info, sink, call, reports, log, proc, conf>>

NextConc ==
  \E t \in Threads : ThreadInsert(t) \/ ThreadReturn(t) \/ ThreadAdd(t)

SpecConc == InitConc /\ [][NextConc]_vars

\* What one call of the reporter fn, running alone, leaves in an empty
\* stream: its insertions from the k-th on, applied in order.
RECURSIVE RunAlone(_, _, _)
RunAlone(os, fn, k) ==
  IF k > Len(Insertions(fn)) THEN os
  ELSE RunAlone(ostream_insert(os, Insertions(fn)[k]), fn, k + 1)

SequentialReport(fn) == RunAlone(Unbounded, fn, 1).text

\* C17: with several threads calling at the same time, each reporter on a
\* sink of its own, under every interleaving of the single insertions: once
\* a reporter has returned, its sink holds exactly the report a call running
\* alone produces; add returns what it returns alone; a step of one thread
\* changes no other thread's frame and no metadata, and no thread ever waits
\* for another.
C17_ConcurrentCallsSafe ==
  /\ [](\A t \in DOMAIN thr :
          /\ (thr[t].fn \in Reporters /\ thr[t].done) =>
               thr[t].os.text = SequentialReport(thr[t].fn)
          /\ (thr[t].fn \in Reporters /\ ~thr[t].done /\ ~ProcessDead) =>
               ENABLED (ThreadInsert(t) \/ ThreadReturn(t))
          /\ (thr[t].fn = "add" /\ thr[t].done) =>
               [outcome |-> thr[t].outcome, value |-> thr[t].value]
                 \in add(thr[t].left, thr[t].right))
  /\ [][/\ info' = info
        /\ \E t \in DOMAIN thr : \A u \in DOMAIN thr \ {t} : thr'[u] = thr[u]]_vars

\* The first thread's reporter has returned with the whole report while
\* the second thread is part-way through the same reporter.
C17_Witness ==
  /\ DOMAIN thr = Threads
  /\ thr[1].fn = "lib" /\ thr[2].fn = "lib"
  /\ thr[1].done /\ ~thr[2].done
  /\ thr[2].pc > 2 /\ thr[2].pc <= Len(Insertions("lib"))
  /\ thr[1].os.text = SequentialReport("lib")
  /\ thr[2].os.text # <<>> /\ thr[2].os.text # thr[1].os.text

(***************************************************************************)
(* A configuration run of CMake over the project: the default flags, the   *)
(* build-target selection of the options module, then its later options.   *)
(***************************************************************************)
StrEXECUTABLE == <<"E", "X", "E", "C", "U", "T", "A", "B", "L", "E">>
StrLIBRARY == <<"L", "I", "B", "R", "A", "R", "Y">>
StrINTERFACE == <<"I", "N", "T", "E", "R", "F", "A", "C", "E">>
StrExecutableLower == <<"e", "x", "e", "c", "u", "t", "a", "b", "l", "e">>
StrLibraryMixed == <<"L", "i", "b", "r", "a", "r", "y">>
StrInterfaceMixed == <<"I", "n", "t", "e", "r", "f", "a", "c", "e">>
StrExe == <<"e", "x", "e">>
StrLibrarySpace == <<"L", "I", "B", "R", "A", "R", "Y", " ">>
StrTargetList ==
  << "E", "X", "E", "C", "U", "T", "A", "B", "L", "E", ";", "L", "I", "B", "R", "A", "R", "Y",
     ";", "I", "N", "T", "E", "R", "F", "A", "C", "E" >>

\* What the user may have put in the cache for <project>_BUILD_TARGET.
TargetInputs ==
  {Undefined} \cup {Defined(v) : v \in {StrEXECUTABLE, StrExecutableLower, StrLIBRARY,
                                        StrLibraryMixed, StrINTERFACE, StrInterfaceMixed,
                                        StrEmpty, StrExe, StrLibrarySpace, StrTargetList}}

\* The option() calls that follow the selection, with their defaults.
OptionDefault ==
  [ WARNINGS_AS_ERRORS |-> "OFF", ENABLE_UNIT_TESTING |-> "ON",
    ENABLE_CLANG_TIDY |-> "OFF", ENABLE_CODE_COVERAGE |-> "OFF" ]

OptionNames == DOMAIN OptionDefault

\* The cache before the run: "" stands for an entry the user did not give.
ConfigInputs ==
  [BUILD_TARGET : TargetInputs, given : [OptionNames -> {"", "ON", "OFF"}]]

InitConfig ==
  /\ build = "macros"
  /\ info = [lib |-> RecScenario, bin |-> RecScenario]
  /\ sink = [s \in Sinks |-> Unbounded]
  /\ call = NoCall
  /\ reports = 0
  /\ log = <<>>
  /\ proc = NotStarted
  /\ thr = <<>>
  /\ \E in \in ConfigInputs :
       conf = [ phase |-> "start", cache |-> in, BUILD_TARGET |-> Undefined,
                build_executable |-> "", build_headers_only |-> "",
                option |-> [n \in OptionNames |-> ""] ]

\* The executable flag defaults to ON.
SetDefaults_executable_on ==
  /\ conf.phase = "start"
  /\ conf' = [conf EXCEPT !.phase = "defaults", !.build_executable = "ON",
                          !.build_headers_only = "OFF"]
  /\ UNCHANGED <<build, info, sink, call, reports, log, proc, thr>>

\* set(<project>_build_executable OFF) and set(<project>_build_headers_only OFF).
SetDefaults ==
  /\ conf.phase = "start"
  /\ conf' = [conf EXCEPT !.phase = "defaults", !.build_executable = "OFF",
                          !.build_headers_only = "OFF"]
  /\ UNCHANGED <<build, info, sink, call, reports, log, proc, thr>>

\* set(... "LIBRARY" CACHE STRING ...): an entry already in the cache is kept.
CacheValue(entry) == IF entry.def THEN entry.val ELSE StrLIBRARY

\* The selection compares the value as the user wrote it.
build_target_selection_exact_case(c) ==
  LET target == CacheValue(c.cache.BUILD_TARGET)
      c1 == [c EXCEPT !.BUILD_TARGET = Defined(target)]
  IN  IF StrEXECUTABLE = target
        THEN [c1 EXCEPT !.build_executable = "ON", !.phase = "target"]
      ELSE IF StrINTERFACE = target
        THEN [c1 EXCEPT !.build_headers_only = "ON", !.phase = "target"]
      ELSE IF ~(StrLIBRARY = target)
        THEN [c1 EXCEPT !.phase = "fatal"]
      ELSE [c1 EXCEPT !.phase = "target"]

\* string(TOUPPER ...) and the if / elseif chain that follows it.
build_target_selection(c) ==
  LET target == ToUpper(CacheValue(c.cache.BUILD_TARGET))
      c1 == [c EXCEPT !.BUILD_TARGET = Defined(target)]
  IN  IF StrEXECUTABLE = target
        THEN [c1 EXCEPT !.build_executable = "ON", !.phase = "target"]
      ELSE IF StrINTERFACE = target
        THEN [c1 EXCEPT !.build_headers_only = "ON", !.phase = "target"]
      ELSE IF ~(StrLIBRARY = target)
        THEN [c1 EXCEPT !.phase = "fatal"]
      ELSE [c1 EXCEPT !.phase = "target"]

SelectBuildTarget ==
  /\ conf.phase = "defaults"
  /\ conf' = build_target_selection(conf)
  /\ UNCHANGED <<build, info, sink, call, reports, log, proc, thr>>

\* option(<name> <text> <default>): the default unless the cache has a value.
ProcessOptions ==
  /\ conf.phase = "target"
  /\ conf' = [conf EXCEPT !.phase = "options",
                          !.option = [n \in OptionNames |->
                                        IF conf.cache.given[n] # "" THEN conf.cache.given[n]
                                        ELSE OptionDefault[n]]]
  /\ UNCHANGED <<build, info, sink, call, reports, log, proc, thr>>

NextConfig == SetDefaults \/ SelectBuildTarget \/ ProcessOptions

SpecConfig == InitConfig /\ [][NextConfig]_vars

EqualNoCase(a, b) == ToUpper(a) = ToUpper(b)

\* C20: once the build target has been selected: a value equal to EXECUTABLE
\* without regard to case has turned build_executable ON, one equal to
\* INTERFACE has turned build_headers_only ON, one equal to LIBRARY has left
\* both flags as they were (OFF) and none of the three is a fatal error;
\* every other value is a fatal error, and after a fatal error no later
\* option has been processed.
C20_BuildTargetSelection ==
  conf.phase \in {"target", "options", "fatal"} =>
    LET value == CacheValue(conf.cache.BUILD_TARGET)
    IN  /\ EqualNoCase(value, StrEXECUTABLE) =>
              conf.phase # "fatal" /\ conf.build_executable = "ON"
        /\ EqualNoCase(value, StrINTERFACE) =>
              conf.phase # "fatal" /\ conf.build_headers_only = "ON"
        /\ EqualNoCase(value, StrLIBRARY) =>
              /\ conf.phase # "fatal"
              /\ conf.build_executable = "OFF" /\ conf.build_headers_only = "OFF"
        /\ (\A name \in {StrEXECUTABLE, StrINTERFACE, StrLIBRARY} :
              ~EqualNoCase(value, name)) =>
              conf.phase = "fatal" /\ \A n \in OptionNames : conf.option[n] = ""
        /\ conf.phase = "fatal" => \A n \in OptionNames : conf.option[n] = ""
        /\ conf.phase = "options" => \A n \in OptionNames : conf.option[n] # ""

\* A value that differs from LIBRARY only by a trailing space has stopped
\* the run before the options the user gave were read.
C20_Witness ==
  /\ conf.phase = "fatal"
  /\ conf.cache.BUILD_TARGET = Defined(StrLibrarySpace)
  /\ conf.cache.given["ENABLE_CODE_COVERAGE"] = "ON"
  /\ conf.option["ENABLE_CODE_COVERAGE"] = ""

\* C21: both flags are OFF before the build target is selected, and in
\* every run that passed the validation of the build target they are never
\* both ON: the selection turned ON at most one of them.
C21_FlagsExclusive ==
  /\ conf.phase = "defaults" =>
       conf.build_executable = "OFF" /\ conf.build_headers_only = "OFF"
  /\ conf.phase \in {"target", "options"} =>
       /\ {conf.build_executable, conf.build_headers_only} \subseteq {"ON", "OFF"}
       /\ ~(conf.build_executable = "ON" /\ conf.build_headers_only = "ON")

\* INTERFACE written in mixed case was selected: the header-only flag is ON
\* and the executable flag is still OFF.
C21_Witness ==
  /\ conf.phase = "options"
  /\ conf.cache.BUILD_TARGET = Defined(StrInterfaceMixed)
  /\ conf.build_headers_only = "ON"
  /\ conf.build_executable = "OFF"

(***************************************************************************)
(* The build tree over time: configuration runs of the build-info module   *)
(* (generate_buildinfo_header, update_version_header), edits of source     *)
(* files, and builds that bring the generated headers up to date.          *)
(* Time is a counter; a file's mtime is the time of its last write, and a  *)
(* header's stamp is the time its content records (string(TIMESTAMP)).     *)
(***************************************************************************)
MaxClock == 4

ProjectKinds == {"LIBRARY", "EXECUTABLE", "INTERFACE"}

Headers == {"lib", "bin"}

\* The variables public_headers, library_sources and exe_sources.
SourceLists == {"public_headers", "library_sources", "exe_sources"}

Absent == [exists |-> FALSE, mtime |-> 0, stamp |-> 0]

\* What the script leaves at ${OUTPUT} when it runs at the time now.
Written(now) == [exists |-> TRUE, mtime |-> now, stamp |-> now]

\* The headers the module generates at configuration time: the library's,
\* and the executable's when <project>_build_executable is ON.
Generated(kind) == IF kind = "EXECUTABLE" THEN {"lib", "bin"} ELSE {"lib"}

\* The DEPENDS list of the custom command of each header (none: no command).
Depends(kind, h) ==
  IF h = "lib"
    THEN (IF kind = "INTERFACE" THEN {"public_headers"}
          ELSE {"public_headers", "library_sources"})
    ELSE (IF kind = "EXECUTABLE" THEN {"exe_sources"} ELSE {})

HasCommand(kind, h) == h = "lib" \/ kind = "EXECUTABLE"

\* The script is run on every configuration.
generate_buildinfo_header_always(file, now) == [file |-> Written(now), ran |-> TRUE]

\* if(NOT EXISTS ${output}) execute_process(<the script>).
generate_buildinfo_header(file, now) ==
  IF ~file.exists THEN [file |-> Written(now), ran |-> TRUE]
  ELSE [file |-> file, ran |-> FALSE]

InitTree ==
  /\ build = "macros"
  /\ info = [lib |-> RecScenario, bin |-> RecScenario]
  /\ sink = [s \in Sinks |-> Unbounded]
  /\ call = NoCall
  /\ reports = 0
  /\ log = <<>>
  /\ proc = NotStarted
  /\ thr = <<>>
  /\ \E kind \in ProjectKinds :
       conf = [ phase |-> "tree", kind |-> kind, configured |-> FALSE, clock |-> 0,
                header |-> [h \in Headers |-> Absent],
                src |-> [d \in SourceLists |-> 0],
                compiled |-> [h \in Headers |-> 0],
                last |-> [op |-> "none", ran |-> {}] ]

\* One run of cmake over the project: lines 157-241 of the module.
Configure ==
  /\ conf.phase = "tree"
  /\ conf.clock < MaxClock
  /\ LET now == conf.clock + 1
         gen == [h \in Headers |->
                   IF h \in Generated(conf.kind)
                     THEN generate_buildinfo_header(conf.header[h], now)
                     ELSE [file |-> conf.header[h], ran |-> FALSE]]
     IN  conf' = [conf EXCEPT !.clock = now, !.configured = TRUE,
                              !.header = [h \in Headers |-> gen[h].file],
                              !.last = [op |-> "configure",
                                        ran |-> {h \in Headers : gen[h].ran}]]
  /\ UNCHANGED <<build, info, sink, call, reports, log, proc, thr>>

\* A file of one of the source lists is edited.
Touch(d) ==
  /\ conf.phase = "tree"
  /\ conf.clock < MaxClock
  /\ conf' = [conf EXCEPT !.clock = @ + 1, !.src[d] = conf.clock + 1,
                          !.last = [op |-> "touch", ran |-> {}]]
  /\ UNCHANGED <<build, info, sink, call, reports, log, proc, thr>>

\* The rule of add_custom_command(OUTPUT h DEPENDS ...) has to run.
OutOfDate(c, h) ==
  \/ ~c.header[h].exists
  \/ \E d \in Depends(c.kind, h) : c.src[d] > c.header[h].mtime

\* The targets are compiled before their headers are brought up to date.
BuildTree_compiles_first ==
  /\ conf.phase = "tree"
  /\ conf.configured
  /\ conf.clock < MaxClock
  /\ LET now == conf.clock + 1
         run == {h \in Headers : HasCommand(conf.kind, h) /\ OutOfDate(conf, h)}
         hdr == [h \in Headers |-> IF h \in run THEN Written(now) ELSE conf.header[h]]
     IN  conf' = [conf EXCEPT !.clock = now, !.header = hdr,
                              !.compiled = [h \in Headers |->
                                              IF HasCommand(conf.kind, h)
                                                THEN conf.header[h].stamp
                                                ELSE conf.compiled[h]],
                              !.last = [op |-> "build", ran |-> run]]
  /\ UNCHANGED <<build, info, sink, call, reports, log, proc, thr>>

\* One build: the header targets the library and the executable depend on
\* (add_dependencies) run their out-of-date commands, then the targets that
\* include the headers are compiled.
BuildTree ==
  /\ conf.phase = "tree"
  /\ conf.configured
  /\ conf.clock < MaxClock
  /\ LET now == conf.clock + 1
         run == {h \in Headers : HasCommand(conf.kind, h) /\ OutOfDate(conf, h)}
         hdr == [h \in Headers |-> IF h \in run THEN Written(now) ELSE conf.header[h]]
     IN  conf' = [conf EXCEPT !.clock = now, !.header = hdr,
                              !.compiled = [h \in Headers |->
                                              IF HasCommand(conf.kind, h)
                                                THEN hdr[h].stamp
                                                ELSE conf.compiled[h]],
                              !.last = [op |-> "build", ran |-> run]]
  /\ UNCHANGED <<build, info, sink, call, reports, log, proc, thr>>

NextTree == Configure \/ (\E d \in SourceLists : Touch(d)) \/ BuildTree

SpecTree == InitTree /\ [][NextTree]_vars

\* The step is a configuration run (every step advances the clock).
IsConfigure == conf'.clock # conf.clock /\ conf'.last.op = "configure"

\* C22: a configuration run starts the generation script for a header only
\* when that header does not exist; a header that exists is left as it is,
\* recorded timestamp included, and no process is run for it.
C22_GenerateOnlyWhenMissing ==
  [][IsConfigure =>
       \A h \in Headers :
         IF h \in Generated(conf.kind) /\ ~conf.header[h].exists
           THEN /\ h \in conf'.last.ran
                /\ conf'.header[h].exists
                /\ conf'.header[h].stamp = conf'.clock
           ELSE /\ h \notin conf'.last.ran
                /\ conf'.header[h] = conf.header[h]]_vars

\* A second configuration run ran no process and left the library's header
\* with the timestamp of the first.
C22_Witness ==
  /\ conf.phase = "tree"
  /\ conf.last = [op |-> "configure", ran |-> {}]
  /\ conf.header["lib"].exists
  /\ conf.header["lib"].stamp = 1
  /\ conf.clock = 2

\* The step is a build.
IsBuild == conf'.clock # conf.clock /\ conf'.last.op = "build"

\* A file of the header's dependency list was written after the header.
DependencyChanged(c, h) == \E d \in Depends(c.kind, h) : c.src[d] > c.header[h].mtime

\* C23: in a build, a header with a regeneration command whose dependency
\* list holds a file changed since the header was written is regenerated,
\* and the target that includes it is compiled against the regenerated
\* header; an existing header none of whose dependencies changed is not
\* regenerated.
C23_RegeneratedWhenSourcesChange ==
  [][IsBuild =>
       \A h \in Headers :
         HasCommand(conf.kind, h) =>
           /\ DependencyChanged(conf, h) =>
                /\ h \in conf'.last.ran
                /\ conf'.header[h].stamp = conf'.clock
                /\ conf'.compiled[h] = conf'.header[h].stamp
           /\ (conf.header[h].exists /\ ~DependencyChanged(conf, h)) =>
                /\ h \notin conf'.last.ran
                /\ conf'.header[h] = conf.header[h]
                /\ conf'.compiled[h] = conf.header[h].stamp]_vars

\* An executable project: after the configuration an executable source was
\* edited, and the build regenerated the executable's header only.
C23_Witness ==
  /\ conf.phase = "tree"
  /\ conf.kind = "EXECUTABLE"
  /\ conf.last = [op |-> "build", ran |-> {"bin"}]
  /\ conf.src["exe_sources"] > conf.header["lib"].mtime
  /\ conf.header["bin"].stamp = conf.clock
  /\ conf.compiled["bin"] = conf.clock
  /\ conf.compiled["lib"] = conf.header["lib"].stamp

(***************************************************************************)
(* cmake/format.cmake: the module registers files in the global property   *)
(* format_files each time a directory includes it, and                     *)
(* add_clang_format_target makes the clang-format target from them.        *)
(***************************************************************************)
MaxFormatSteps == 4

PathVersionHpp == <<"v", "e", "r", "s", "i", "o", "n", ".", "h", "p", "p">>
PathTmpHpp == <<"t", "m", "p", ".", "h", "p", "p">>
PathTmpCpp == <<"t", "m", "p", ".", "c", "p", "p">>
PathMainCpp == <<"m", "a", "i", "n", ".", "c", "p", "p">>

\* The lists the registration expands, as sequences of paths.
header_version == <<PathVersionHpp>>

public_headers == <<PathTmpHpp>>

library_sources == <<PathTmpCpp>>

exe_sources == <<PathMainCpp>>

Directories == {"root", "sub"}

NoTarget == [exists |-> FALSE, command |-> <<>>]

\* A list variable as the string if() sees: its elements joined by ";".
RECURSIVE JoinList(_)
JoinList(list) ==
  IF list = <<>> THEN <<>>
  ELSE IF Len(list) = 1 THEN list[1]
  ELSE list[1] \o <<";">> \o JoinList(Tail(list))

\* list(REMOVE_DUPLICATES): the first occurrence of each element is kept.
RECURSIVE RemoveDuplicates(_)
RemoveDuplicates(list) ==
  IF list = <<>> THEN <<>>
  ELSE LET front == RemoveDuplicates(SubSeq(list, 1, Len(list) - 1))
           last == list[Len(list)]
       IN  IF \E i \in 1 .. Len(front) : front[i] = last THEN front
           ELSE Append(front, last)

\* The files the module appends for the kind of project (lines 118-161).
Registration(kind) ==
  IF kind = "EXECUTABLE"
    THEN header_version \o public_headers \o library_sources \o exe_sources
  ELSE IF kind = "INTERFACE" THEN header_version \o public_headers
  ELSE header_version \o public_headers \o library_sources

InitFormat ==
  /\ build = "macros"
  /\ info = [lib |-> RecScenario, bin |-> RecScenario]
  /\ sink = [s \in Sinks |-> Unbounded]
  /\ call = NoCall
  /\ reports = 0
  /\ log = <<>>
  /\ proc = NotStarted
  /\ thr = <<>>
  /\ \E kind \in ProjectKinds, installed \in BOOLEAN :
       conf = [ phase |-> "format", kind |-> kind, installed |-> installed,
                CLANG_FORMAT_BINARY |-> FALSE, format_files |-> <<>>,
                target |-> NoTarget, steps |-> 0,
                last |-> [op |-> "none", dir |-> "root", created |-> FALSE] ]

\* include(format.cmake) in the directory dir: lines 89-161.
IncludeFormatModule(dir) ==
  /\ conf.phase = "format"
  /\ conf.steps < MaxFormatSteps
  /\ LET c0 == [conf EXCEPT !.steps = @ + 1,
                            !.last = [op |-> "include", dir |-> dir, created |-> FALSE]]
         found == IF dir = "root" THEN conf.installed ELSE conf.CLANG_FORMAT_BINARY
     IN  conf' =
           IF dir = "root" /\ ~IsFalseConstant(JoinList(conf.format_files))
             THEN [c0 EXCEPT !.phase = "fatal"]
           ELSE IF ~found
             THEN [c0 EXCEPT !.CLANG_FORMAT_BINARY = found]
           ELSE [c0 EXCEPT !.CLANG_FORMAT_BINARY = found,
                           !.format_files = @ \o Registration(conf.kind)]
  /\ UNCHANGED <<build, info, sink, call, reports, log, proc, thr>>

\* The target is made from the list as registered, duplicates included.
add_clang_format_target_keeps_duplicates(dir) ==
  /\ conf.phase = "format"
  /\ conf.steps < MaxFormatSteps
  /\ LET c0 == [conf EXCEPT !.steps = @ + 1,
                            !.last = [op |-> "add_clang_format_target", dir |-> dir,
                                      created |-> FALSE]]
     IN  conf' =
           IF dir # "root" THEN c0
           ELSE IF ~conf.CLANG_FORMAT_BINARY THEN c0
           ELSE IF IsFalseConstant(JoinList(conf.format_files)) THEN c0
           ELSE IF conf.target.exists THEN [c0 EXCEPT !.phase = "fatal"]
           ELSE [c0 EXCEPT !.target = [exists |-> TRUE, command |-> conf.format_files],
                           !.last.created = TRUE]
  /\ UNCHANGED <<build, info, sink, call, reports, log, proc, thr>>

\* add_clang_format_target() called in the directory dir: lines 21-84.  A
\* second target of the same name is an error of the configuration.
add_clang_format_target(dir) ==
  /\ conf.phase = "format"
  /\ conf.steps < MaxFormatSteps
  /\ LET c0 == [conf EXCEPT !.steps = @ + 1,
                            !.last = [op |-> "add_clang_format_target", dir |-> dir,
                                      created |-> FALSE]]
     IN  conf' =
           IF dir # "root" THEN c0
           ELSE IF ~conf.CLANG_FORMAT_BINARY THEN c0
           ELSE IF IsFalseConstant(JoinList(conf.format_files)) THEN c0
           ELSE IF conf.target.exists THEN [c0 EXCEPT !.phase = "fatal"]
           ELSE [c0 EXCEPT !.target = [exists |-> TRUE,
                                       command |-> RemoveDuplicates(conf.format_files)],
                           !.last.created = TRUE]
  /\ UNCHANGED <<build, info, sink, call, reports, log, proc, thr>>

NextFormat ==
  \E dir \in Directories : IncludeFormatModule(dir) \/ add_clang_format_target(dir)

SpecFormat == InitFormat /\ [][NextFormat]_vars

\* The step is a call of add_clang_format_target.
IsFormatCall == conf'.steps # conf.steps /\ conf'.last.op = "add_clang_format_target"

Occurrences(list, f) == Cardinality({i \in 1 .. Len(list) : list[i] = f})

\* C24: a call of add_clang_format_target creates the target only if it is
\* made at the project root, clang-format was found and at least one file
\* is registered, and then (no such target existing yet) it does create it,
\* with every registered file exactly once in the command; a call in any
\* other case leaves the targets as they were.
C24_FormatTargetGuards ==
  [][IsFormatCall =>
       LET allHold == /\ conf'.last.dir = "root"
                      /\ conf.CLANG_FORMAT_BINARY
                      /\ conf.format_files # <<>>
       IN  /\ conf'.last.created => allHold
           /\ (allHold /\ ~conf.target.exists) => conf'.last.created
           /\ ~conf'.last.created => conf'.target = conf.target
           /\ conf'.last.created =>
                /\ conf'.target.exists
                /\ \A i \in 1 .. Len(conf.format_files) :
                     Occurrences(conf'.target.command, conf.format_files[i]) = 1
                /\ \A i \in 1 .. Len(conf'.target.command) :
                     Occurrences(conf.format_files, conf'.target.command[i]) >= 1]_vars

\* Every file was registered twice (the module was included at the root and
\* in a subdirectory) and the target's command names each of them once.
C24_Witness ==
  /\ conf.phase = "format"
  /\ conf.last.op = "add_clang_format_target" /\ conf.last.created
  /\ Len(conf.format_files) = 2 * Len(conf.target.command)
  /\ conf.kind = "EXECUTABLE"
  /\ Len(conf.target.command) = 4

(***************************************************************************)
(* cmake/profraw.script.cmake, lines 1-41: the script that merges the raw  *)
(* profiles of a test run with llvm-profdata.                              *)
(***************************************************************************)
NameProfraw1 ==
  << "d", "e", "f", "a", "u", "l", "t", "-", "1", ".", "p", "r", "o", "f", "r", "a", "w" >>
NameProfraw22 ==
  << "d", "e", "f", "a", "u", "l", "t", "-", "2", "2", ".", "p", "r", "o", "f", "r", "a", "w" >>
NameNoDash == <<"d", "e", "f", "a", "u", "l", "t", ".", "p", "r", "o", "f", "r", "a", "w">>
NameOtherRun == <<"o", "t", "h", "e", "r", "-", "1", ".", "p", "r", "o", "f", "r", "a", "w">>
NameProfdata ==
  << "c", "o", "v", "e", "r", "a", "g", "e", ".", "p", "r", "o", "f", "d", "a", "t", "a" >>
GlobPrefix == <<"d", "e", "f", "a", "u", "l", "t", "-">>
GlobSuffix == <<".", "p", "r", "o", "f", "r", "a", "w">>
ExitOne == <<"1">>
Exit255 == <<"2", "5", "5">>
CannotRun ==
  << "N", "o", " ", "s", "u", "c", "h", " ", "f", "i", "l", "e", " ", "o", "r", " ", "d", "i",
     "r", "e", "c", "t", "o", "r", "y" >>

\* The names that may be in ${DIR}, in the order file(GLOB) lists them.
DirNames == <<NameProfdata, NameProfraw1, NameProfraw22, NameNoDash, NameOtherRun>>

\* RESULT_VARIABLE of execute_process: the exit code of llvm-profdata, or a
\* text when the process could not be started.
MergeResults == {StrZero, ExitOne, Exit255, CannotRun}

\* The pattern default-*.profraw.
GlobMatches(name) ==
  /\ Len(name) >= Len(GlobPrefix) + Len(GlobSuffix)
  /\ HasPrefix(name, GlobPrefix)
  /\ HasSuffix(name, GlobSuffix)

\* file(GLOB profraw_files ${DIR}/default-*.profraw) on a directory holding
\* the names of the set dir.
Glob(dir) == SelectSeq(DirNames, LAMBDA name : name \in dir /\ GlobMatches(name))

\* The merge is run whatever the directory holds.
profraw_script_always_merges(in) ==
  LET profraw_files == Glob(in.dir)
  IN  IF ~IsFalseConstant(in.res)
        THEN [phase |-> "fatal", merged |-> TRUE, inputs |-> profraw_files,
              message |-> "FATAL_ERROR"]
        ELSE [phase |-> "done", merged |-> TRUE, inputs |-> profraw_files,
              message |-> "STATUS"]

\* The whole script.  in.res is what llvm-profdata gives when it is run.
profraw_script(in) ==
  LET profraw_files == Glob(in.dir)
  IN  IF IsFalseConstant(JoinList(profraw_files))
        THEN [phase |-> "done", merged |-> FALSE, inputs |-> <<>>, message |-> "WARNING"]
      ELSE IF ~IsFalseConstant(in.res)
        THEN [phase |-> "fatal", merged |-> TRUE, inputs |-> profraw_files,
              message |-> "FATAL_ERROR"]
      ELSE [phase |-> "done", merged |-> TRUE, inputs |-> profraw_files,
            message |-> "STATUS"]

InitProfraw ==
  /\ build = "macros"
  /\ info = [lib |-> RecScenario, bin |-> RecScenario]
  /\ sink = [s \in Sinks |-> Unbounded]
  /\ call = NoCall
  /\ reports = 0
  /\ log = <<>>
  /\ proc = NotStarted
  /\ thr = <<>>
  /\ \E dir \in SUBSET {DirNames[i] : i \in 1 .. Len(DirNames)}, res \in MergeResults :
       conf = [phase |-> "profraw", in |-> [dir |-> dir, res |-> res]]

RunProfrawScript ==
  /\ conf.phase = "profraw"
  /\ LET out == profraw_script(conf.in)
     IN  conf' = [ phase |-> out.phase, in |-> conf.in, merged |-> out.merged,
                   inputs |-> out.inputs, message |-> out.message ]
  /\ UNCHANGED <<build, info, sink, call, reports, log, proc, thr>>

NextProfraw == RunProfrawScript

SpecProfraw == InitProfraw /\ [][NextProfraw]_vars

\* The files of the directory named default-<anything>.profraw.
RawProfiles(dir) ==
  {name \in dir : \E k \in 0 .. (Len(name) - Len(GlobPrefix)) :
                    name = GlobPrefix \o SubSeq(name, Len(GlobPrefix) + 1, Len(GlobPrefix) + k)
                             \o GlobSuffix}

\* C25: when the script has run: with no default-*.profraw file in the
\* directory it has warned, has not run llvm-profdata and has ended without
\* an error; with at least one it has run llvm-profdata on exactly those
\* files, has ended with a fatal error when the exit was not zero, and has
\* reported success only for a zero exit.
C25_MergeOnlyWithProfiles ==
  conf.phase \in {"done", "fatal"} =>
    LET raw == RawProfiles(conf.in.dir)
    IN  /\ raw = {} =>
              ~conf.merged /\ conf.message = "WARNING" /\ conf.phase = "done"
        /\ raw # {} =>
              /\ conf.merged
              /\ {conf.inputs[i] : i \in 1 .. Len(conf.inputs)} = raw
              /\ conf.in.res # StrZero => conf.phase = "fatal"
              /\ conf.in.res = StrZero => conf.phase = "done" /\ conf.message = "STATUS"
        /\ conf.message = "STATUS" => conf.in.res = StrZero

\* Two raw profiles among other files, and llvm-profdata exited with 1.
C25_Witness ==
  /\ conf.phase = "fatal"
  /\ conf.in.dir = {NameProfdata, NameProfraw1, NameProfraw22, NameNoDash}
  /\ conf.in.res = ExitOne
  /\ conf.inputs = <<NameProfraw1, NameProfraw22>>

(***************************************************************************)
(* The coverage target of cmake/codecov.cmake when it is built: its        *)
(* COMMANDs run in the order written, and the build stops at the first     *)
(* command that fails.  The data of a test run is named by the number of   *)
(* the run that produced it.                                               *)
(***************************************************************************)
MaxRuns == 3

CoverageCompilers == {"Clang", "AppleClang", "GNU"}

\* CMAKE_CXX_COMPILER_ID MATCHES ".*Clang"
MatchesClang(id) == id \in {"Clang", "AppleClang"}

\* The COMMAND list of the coverage target made for the compiler.
CoverageCommands(id) ==
  IF MatchesClang(id)
    THEN <<"remove_directory", "ctest", "merge", "report">>
    ELSE <<"remove_directory", "make_directory", "ctest", "gcov">>

InitCoverage ==
  /\ build = "macros"
  /\ info = [lib |-> RecScenario, bin |-> RecScenario]
  /\ sink = [s \in Sinks |-> Unbounded]
  /\ call = NoCall
  /\ reports = 0
  /\ log = <<>>
  /\ proc = NotStarted
  /\ thr = <<>>
  /\ \E id \in CoverageCompilers :
       conf = [ phase |-> "coverage", compiler |-> id, run |-> 0, pc |-> 0, steps |-> <<>>,
                \* ${dir_codecov}: whether it exists, the raw profiles and the
                \* processed data in it (by run)
                dir |-> FALSE, profraw |-> {}, processed |-> {},
                \* the .gcda files next to the object files (by run)
                gcda |-> {},
                \* the raw data that was on disk when the tests of this run began
                stale |-> {}, report |-> {} ]

\* cmake --build <dir> --target coverage
StartCoverage ==
  /\ conf.phase = "coverage"
  /\ conf.pc = 0
  /\ conf.run < MaxRuns
  /\ conf' = [conf EXCEPT !.run = @ + 1, !.pc = 1, !.steps = <<>>, !.stale = {}]
  /\ UNCHANGED <<build, info, sink, call, reports, log, proc, thr>>

\* What the command does to the files when it succeeds.
CommandEffect(c, cmd) ==
  IF cmd = "remove_directory"
    THEN [c EXCEPT !.dir = FALSE, !.profraw = {}, !.processed = {}]
  ELSE IF cmd = "make_directory" THEN [c EXCEPT !.dir = TRUE]
  ELSE IF cmd = "ctest"
    THEN (IF MatchesClang(c.compiler)
            \* LLVM_PROFILE_FILE=${dir_codecov}/default-%p.profraw
            THEN [c EXCEPT !.stale = c.profraw, !.profraw = @ \cup {c.run}, !.dir = TRUE]
            \* the instrumented code adds its counters to the .gcda files
            ELSE [c EXCEPT !.stale = c.gcda, !.gcda = @ \cup {c.run}])
  ELSE IF cmd = "merge" THEN [c EXCEPT !.processed = c.profraw]
  ELSE IF cmd = "gcov" THEN [c EXCEPT !.processed = c.gcda, !.report = c.gcda]
  ELSE [c EXCEPT !.report = c.processed]

\* The next COMMAND of the target runs; ok is whether it exits with zero.
\* Tests that fail have still written their data.
RunCommand ==
  /\ conf.phase = "coverage"
  /\ conf.pc > 0
  /\ LET cmds == CoverageCommands(conf.compiler)
         cmd == cmds[conf.pc]
     IN  \E ok \in (IF cmd \in {"ctest", "merge"} THEN BOOLEAN ELSE {TRUE}) :
           LET done == IF ok \/ cmd = "ctest" THEN CommandEffect(conf, cmd) ELSE conf
           IN  conf' = [done EXCEPT !.steps = Append(@, cmd),
                                    !.pc = IF ok /\ conf.pc < Len(cmds) THEN conf.pc + 1
                                           ELSE 0]
  /\ UNCHANGED <<build, info, sink, call, reports, log, proc, thr>>

NextCoverage == StartCoverage \/ RunCommand

SpecCoverage == InitCoverage /\ [][NextCoverage]_vars

\* The place of a command in the order removal, tests, processing, report.
StepRank(cmd) ==
  CASE cmd = "remove_directory" -> 1
    [] cmd = "make_directory" -> 1
    [] cmd = "ctest" -> 2
    [] cmd = "merge" -> 3
    [] cmd = "gcov" -> 3
    [] OTHER -> 4

\* C26: in every build of the coverage target the commands run in the order
\* removal of the output directory, tests, merging or processing, report;
\* the report or processing never runs before the tests; and when the tests
\* start no raw coverage data of an earlier run is on disk.
C26_CoverageStepsOrdered ==
  conf.phase = "coverage" =>
    /\ conf.steps # <<>> => conf.steps[1] = "remove_directory"
    /\ \A i \in 1 .. Len(conf.steps), j \in 1 .. Len(conf.steps) :
         i < j => StepRank(conf.steps[i]) < StepRank(conf.steps[j])
                    \/ (conf.steps[i] = "remove_directory" /\ conf.steps[j] = "make_directory")
    /\ \A j \in 1 .. Len(conf.steps) :
         StepRank(conf.steps[j]) > 2 => \E i \in 1 .. (j - 1) : conf.steps[i] = "ctest"
    /\ (\E i \in 1 .. Len(conf.steps) : conf.steps[i] = "ctest") => conf.stale = {}

(***************************************************************************)
(* configure_code_coverage_instrumentation, in the two revisions of the    *)
(* coverage module: unnamed/part_005 (flags written out) and               *)
(* cmake/codecov.cmake (flags chosen by compiler, test environment set).   *)
(***************************************************************************)
StrON == <<"O", "N">>
StrOne == <<"1">>

\* Values of <project>_ENABLE_CODE_COVERAGE; the empty one is "not defined".
CoverageOptionValues == {StrEmpty, StrOFF, StrZero, StrON, StrOne}

InstrumentCompilers == CoverageCompilers \cup {"MSVC"}

CoverageRevisions == {"part_005", "codecov"}

BuildTargets == {"library", "tests", "exe"}

Plain == [compile |-> {}, visibility |-> "none", link |-> {}]

\* coverage_compile_options and coverage_link_options (codecov.cmake:207-247).
coverage_compile_options(id) ==
  IF MatchesClang(id) THEN {"-fprofile-instr-generate", "-fcoverage-mapping"}
  ELSE IF id = "GNU" THEN {"-fprofile-arcs", "-ftest-coverage"}
  ELSE {}

coverage_link_options(id) ==
  IF MatchesClang(id) THEN {"-fprofile-instr-generate"}
  ELSE IF id = "GNU" THEN {"-fprofile-arcs", "-ftest-coverage"}
  ELSE {}

\* apply_coverage_compile_flags and apply_coverage_link_flags on one target.
apply_coverage_flags(c, target, visibility) ==
  [c EXCEPT !.targets[target] =
     [ compile |-> {"-O0", "-g"} \cup
                     (IF c.revision = "part_005" THEN {"-fprofile-arcs", "-ftest-coverage"}
                      ELSE coverage_compile_options(c.compiler)),
       visibility |-> visibility,
       link |-> IF c.revision = "part_005" THEN {"-fprofile-arcs", "-ftest-coverage"}
                ELSE coverage_link_options(c.compiler) ]]

\* The library's link flags are PUBLIC whatever the kind of library.
configure_code_coverage_instrumentation_public_always(c) ==
  IF IsFalseConstant(c.ENABLE_CODE_COVERAGE) THEN c
  ELSE LET flagged ==
             IF c.kind = "INTERFACE" THEN apply_coverage_flags(c, "tests", "PRIVATE")
             ELSE apply_coverage_flags(c, "library", "PUBLIC")
       IN  IF c.revision = "codecov" THEN [flagged EXCEPT !.LLVM_PROFILE_FILE = TRUE]
           ELSE flagged

configure_code_coverage_instrumentation(c) ==
  IF IsFalseConstant(c.ENABLE_CODE_COVERAGE) THEN c
  ELSE LET flagged ==
             IF c.kind = "INTERFACE" THEN apply_coverage_flags(c, "tests", "PRIVATE")
             ELSE IF c.BUILD_SHARED_LIBS THEN apply_coverage_flags(c, "library", "PRIVATE")
             ELSE apply_coverage_flags(c, "library", "PUBLIC")
       IN  IF c.revision = "codecov" THEN [flagged EXCEPT !.LLVM_PROFILE_FILE = TRUE]
           ELSE flagged

InitInstrument ==
  /\ build = "macros"
  /\ info = [lib |-> RecScenario, bin |-> RecScenario]
  /\ sink = [s \in Sinks |-> Unbounded]
  /\ call = NoCall
  /\ reports = 0
  /\ log = <<>>
  /\ proc = NotStarted
  /\ thr = <<>>
  /\ \E revision \in CoverageRevisions, option \in CoverageOptionValues,
        kind \in ProjectKinds, shared \in BOOLEAN, id \in InstrumentCompilers :
       conf = [ phase |-> "instrument", revision |-> revision,
                ENABLE_CODE_COVERAGE |-> option, kind |-> kind,
                BUILD_SHARED_LIBS |-> shared, compiler |-> id,
                targets |-> [t \in BuildTargets |-> Plain],
                LLVM_PROFILE_FILE |-> FALSE ]

CallConfigureInstrumentation ==
  /\ conf.phase = "instrument"
  /\ conf' = [configure_code_coverage_instrumentation(conf) EXCEPT !.phase = "instrumented"]
  /\ UNCHANGED <<build, info, sink, call, reports, log, proc, thr>>

NextInstrument == CallConfigureInstrumentation

SpecInstrument == InitInstrument /\ [][NextInstrument]_vars

\* C27: after the call: with the coverage option not ON no target has got
\* any option and the test environment is as before; with the option ON
\* exactly one target has got the coverage options: the test executable
\* with PRIVATE link options in a header-only project, else the library,
\* with PRIVATE link options for a shared and PUBLIC for a static library.
C27_InstrumentsOneTarget ==
  conf.phase = "instrumented" =>
    LET on == conf.ENABLE_CODE_COVERAGE \in {StrON, StrOne}
        flagged == {t \in BuildTargets : conf.targets[t] # Plain}
    IN  /\ ~on => flagged = {} /\ ~conf.LLVM_PROFILE_FILE
        /\ on =>
             /\ Cardinality(flagged) = 1
             /\ conf.kind = "INTERFACE" =>
                  flagged = {"tests"} /\ conf.targets["tests"].visibility = "PRIVATE"
             /\ conf.kind # "INTERFACE" =>
                  /\ flagged = {"library"}
                  /\ conf.targets["library"].visibility =
                       (IF conf.BUILD_SHARED_LIBS THEN "PRIVATE" ELSE "PUBLIC")
             /\ \A t \in flagged : {"-O0", "-g"} \subseteq conf.targets[t].compile

\* A shared library built by Clang: the library alone is instrumented and
\* its link options are PRIVATE.
C27_Witness ==
  /\ conf.phase = "instrumented"
  /\ conf.ENABLE_CODE_COVERAGE = StrON
  /\ conf.kind = "LIBRARY" /\ conf.BUILD_SHARED_LIBS /\ conf.compiler = "Clang"
  /\ conf.revision = "codecov"
  /\ conf.targets["library"].visibility = "PRIVATE"
  /\ "-fcoverage-mapping" \in conf.targets["library"].compile
  /\ conf.targets["tests"] = Plain

(***************************************************************************)
(* set_coverage_target of cmake/codecov.cmake: called at configuration     *)
(* time, it creates the coverage target when the tools of the compiler's   *)
(* workflow are installed.                                                 *)
(***************************************************************************)
CoverageTools == {"llvm-profdata", "llvm-cov", "gcov", "find", "bash"}

\* find_program(<VAR> <name>) followed by if(NOT <VAR>): the tool is missing.
Missing(c, tool) == tool \notin c.installed

Skip(c, level) == [c EXCEPT !.phase = "configured", !.messages = Append(@, level)]

set_clang_coverage_target(c) ==
  IF Missing(c, "llvm-profdata") THEN Skip(c, "WARNING")
  ELSE IF Missing(c, "llvm-cov") THEN Skip(c, "WARNING")
  ELSE [c EXCEPT !.phase = "configured", !.coverage = "llvm",
                 !.messages = Append(@, "STATUS")]

\* The target is created without looking for bash.
set_gcc_coverage_target_without_bash(c) ==
  IF Missing(c, "gcov") THEN Skip(c, "WARNING")
  ELSE IF Missing(c, "find") THEN Skip(c, "WARNING")
  ELSE [c EXCEPT !.phase = "configured", !.coverage = "gcc",
                 !.messages = Append(@, "STATUS")]

set_gcc_coverage_target(c) ==
  IF Missing(c, "gcov") THEN Skip(c, "WARNING")
  ELSE IF Missing(c, "find") THEN Skip(c, "WARNING")
  ELSE IF Missing(c, "bash") THEN Skip(c, "WARNING")
  ELSE [c EXCEPT !.phase = "configured", !.coverage = "gcc",
                 !.messages = Append(@, "STATUS")]

set_coverage_target(c) ==
  IF IsFalseConstant(c.ENABLE_CODE_COVERAGE) THEN [c EXCEPT !.phase = "configured"]
  ELSE IF MatchesClang(c.compiler) THEN set_clang_coverage_target(c)
  ELSE IF c.compiler = "GNU" THEN set_gcc_coverage_target(c)
  ELSE Skip(c, "AUTHOR_WARNING")

InitCoverageTarget ==
  /\ build = "macros"
  /\ info = [lib |-> RecScenario, bin |-> RecScenario]
  /\ sink = [s \in Sinks |-> Unbounded]
  /\ call = NoCall
  /\ reports = 0
  /\ log = <<>>
  /\ proc = NotStarted
  /\ thr = <<>>
  /\ \E option \in CoverageOptionValues, id \in InstrumentCompilers,
        installed \in SUBSET CoverageTools :
       conf = [ phase |-> "configuring", ENABLE_CODE_COVERAGE |-> option,
                compiler |-> id, installed |-> installed,
                coverage |-> "none", messages |-> <<>> ]

CallSetCoverageTarget ==
  /\ conf.phase = "configuring"
  /\ conf' = set_coverage_target(conf)
  /\ UNCHANGED <<build, info, sink, call, reports, log, proc, thr>>

NextCoverageTarget == CallSetCoverageTarget

SpecCoverageTarget == InitCoverageTarget /\ [][NextCoverageTarget]_vars

\* The tools the coverage target of the compiler needs.
RequiredTools(id) ==
  IF id \in {"Clang", "AppleClang"} THEN {"llvm-profdata", "llvm-cov"}
  ELSE IF id = "GNU" THEN {"gcov", "find", "bash"}
  ELSE {}

\* C28: with coverage enabled: when a tool the compiler's coverage target
\* needs is missing, or the compiler is neither Clang nor GNU, the
\* configuration goes on, a warning has been issued and there is no
\* coverage target; there is a coverage target only when the compiler is
\* supported and every tool it needs was found, and then there is one.
C28_MissingToolSkipsTarget ==
  (conf.phase \notin {"configuring"} /\ conf.ENABLE_CODE_COVERAGE \in {StrON, StrOne}) =>
    LET supported == conf.compiler \in {"Clang", "AppleClang", "GNU"}
        complete == RequiredTools(conf.compiler) \subseteq conf.installed
    IN  /\ conf.phase = "configured"
        /\ (~supported \/ ~complete) =>
             /\ conf.coverage = "none"
             /\ \E i \in 1 .. Len(conf.messages) :
                  conf.messages[i] \in {"WARNING", "AUTHOR_WARNING"}
        /\ conf.coverage # "none" => supported /\ complete
        /\ (supported /\ complete) => conf.coverage # "none"

\* GCC with gcov and find installed but no bash: a warning and no target.
C28_Witness ==
  /\ conf.phase = "configured"
  /\ conf.ENABLE_CODE_COVERAGE = StrON
  /\ conf.compiler = "GNU"
  /\ conf.installed = {"gcov", "find", "llvm-cov"}
  /\ conf.coverage = "none"
  /\ conf.messages = <<"WARNING">>

\* ---------------------------------------------------------------------------
\* Clang-Tidy integration: clang_tidy.cmake and the Clang-Tidy block of
\* static_analysis.cmake.
\* ---------------------------------------------------------------------------
StrClangTidyPath ==
  << "/", "u", "s", "r", "/", "b", "i", "n", "/", "c", "l", "a", "n", "g", "-", "t", "i", "d",
     "y" >>
StrClangTidyNotFound ==
  << "C", "L", "A", "N", "G", "T", "I", "D", "Y", "-", "N", "O", "T", "F", "O", "U", "N", "D" >>
StrExtraArg ==
  << "-", "e", "x", "t", "r", "a", "-", "a", "r", "g", "=", "-", "W", "n", "o", "-", "u", "n",
     "k", "n", "o", "w", "n", "-", "w", "a", "r", "n", "i", "n", "g", "-", "o", "p", "t", "i",
     "o", "n" >>
StrHeaderFilterEq == <<"-", "h", "e", "a", "d", "e", "r", "-", "f", "i", "l", "t", "e", "r", "=">>
StrQuiet == <<"-", "-", "q", "u", "i", "e", "t">>
StrUserTidy == <<"c", "l", "a", "n", "g", "-", "t", "i", "d", "y", "-", "1", "7">>
StrDirInclude == <<"/", "p", "/", "i", "n", "c", "l", "u", "d", "e">>
StrDirSrc == <<"/", "p", "/", "s", "r", "c">>
StrDirBinaryInclude == <<"/", "p", "/", "b", ".", "d", "/", "i", "n", "c", "l", "u", "d", "e">>
StrDirBinarySrc == <<"/", "p", "/", "b", ".", "d", "/", "s", "r", "c">>
StrSlashDotStar == <<"/", ".", "*">>

TidyRevisions == {"clang_tidy", "static_analysis"}

\* Values of <project>_ENABLE_CLANG_TIDY; the empty one is "not defined".
TidyOptionValues == {StrEmpty, StrOFF, StrZero, StrON, StrOne}

\* The cache entry CLANGTIDY before the module runs: none, the result of an
\* earlier failed lookup, or the path an earlier lookup found.
TidyCacheEntries == {Undefined, Defined(StrClangTidyNotFound), Defined(StrClangTidyPath)}

\* CMAKE_CXX_CLANG_TIDY before the module runs: not set, or given by the user.
TidyPriorValues == {Undefined, Defined(<<StrUserTidy>>)}

\* dir_include, dir_src, dir_binary_include, dir_binary_src.
TidyDirectories == <<StrDirInclude, StrDirSrc, StrDirBinaryInclude, StrDirBinarySrc>>

\* find_program(CLANGTIDY clang-tidy): a cache entry holding a path is kept
\* without searching; otherwise the search stores the path or
\* CLANGTIDY-NOTFOUND.
find_program(c) ==
  IF c.CLANGTIDY.def /\ ~IsFalseConstant(c.CLANGTIDY.val)
  THEN [c EXCEPT !.lookups = @ + 1]
  ELSE [c EXCEPT !.lookups = @ + 1,
                 !.CLANGTIDY = IF c.installed THEN Defined(StrClangTidyPath)
                               ELSE Defined(StrClangTidyNotFound)]

\* string(REGEX REPLACE "\\." "\\\\." ...): a backslash before every dot.
RECURSIVE EscapeDots(_)
EscapeDots(path) ==
  IF path = <<>> THEN <<>>
  ELSE (IF Head(path) = "." THEN <<"\\", ".">> ELSE <<Head(path)>>) \o EscapeDots(Tail(path))

\* string(REPLACE ";" "|" ...) of the list of patterns.
RECURSIVE JoinAlternatives(_)
JoinAlternatives(list) ==
  IF list = <<>> THEN <<>>
  ELSE IF Len(list) = 1 THEN list[1]
  ELSE list[1] \o <<"|">> \o JoinAlternatives(Tail(list))

header_filter_regex ==
  <<"(">> \o
  JoinAlternatives([i \in 1 .. Len(TidyDirectories) |->
                      EscapeDots(TidyDirectories[i]) \o StrSlashDotStar]) \o
  <<")">>

TidyDone(c) == [c EXCEPT !.phase = "configured"]

\* The value is set although the executable was not found.
clang_tidy_sets_when_missing(c) ==
  IF IsFalseConstant(c.ENABLE_CLANG_TIDY) THEN TidyDone(c)
  ELSE LET f == find_program(c)
           g == IF IsFalseConstant(Expand(f.CLANGTIDY))
                THEN [f EXCEPT !.messages = Append(@, "SEND_ERROR")]
                ELSE f
       IN  TidyDone([g EXCEPT
             !.CMAKE_CXX_CLANG_TIDY =
                Defined(<< f.CLANGTIDY.val, StrExtraArg,
                           StrHeaderFilterEq \o header_filter_regex, StrQuiet >>),
             !.messages = Append(@, "NOTICE")])

clang_tidy(c) ==
  IF IsFalseConstant(c.ENABLE_CLANG_TIDY) THEN TidyDone(c)
  ELSE LET f == find_program(c)
       IN  IF IsFalseConstant(Expand(f.CLANGTIDY))
           THEN TidyDone([f EXCEPT !.messages = Append(@, "SEND_ERROR")])
           ELSE TidyDone([f EXCEPT
                  !.CMAKE_CXX_CLANG_TIDY =
                     Defined(<< f.CLANGTIDY.val, StrExtraArg,
                                StrHeaderFilterEq \o header_filter_regex, StrQuiet >>),
                  !.messages = Append(@, "NOTICE")])

static_analysis_clang_tidy(c) ==
  IF ~IsFalseConstant(c.ENABLE_CLANG_TIDY)
  THEN LET f == find_program(c)
       IN  IF ~IsFalseConstant(Expand(f.CLANGTIDY))
           THEN TidyDone([f EXCEPT
                  !.CMAKE_CXX_CLANG_TIDY = Defined(<<f.CLANGTIDY.val, StrExtraArg>>),
                  !.messages = Append(@, "NOTICE")])
           ELSE TidyDone([f EXCEPT !.messages = Append(@, "SEND_ERROR")])
  ELSE TidyDone(c)

InitTidy ==
  /\ build = "macros"
  /\ info = [lib |-> RecScenario, bin |-> RecScenario]
  /\ sink = [s \in Sinks |-> Unbounded]
  /\ call = NoCall
  /\ reports = 0
  /\ log = <<>>
  /\ proc = NotStarted
  /\ thr = <<>>
  /\ \E revision \in TidyRevisions, option \in TidyOptionValues, installed \in BOOLEAN,
        entry \in TidyCacheEntries, prior \in TidyPriorValues :
       conf = [ phase |-> "configuring", revision |-> revision,
                ENABLE_CLANG_TIDY |-> option, installed |-> installed,
                CLANGTIDY |-> entry, CMAKE_CXX_CLANG_TIDY |-> prior,
                lookups |-> 0, messages |-> <<>> ]

IncludeClangTidy ==
  /\ conf.phase = "configuring"
  /\ conf.revision = "clang_tidy"
  /\ conf' = clang_tidy(conf)
  /\ UNCHANGED <<build, info, sink, call, reports, log, proc, thr>>

IncludeStaticAnalysis ==
  /\ conf.phase = "configuring"
  /\ conf.revision = "static_analysis"
  /\ conf' = static_analysis_clang_tidy(conf)
  /\ UNCHANGED <<build, info, sink, call, reports, log, proc, thr>>

NextTidy == IncludeClangTidy \/ IncludeStaticAnalysis

SpecTidy == InitTidy /\ [][NextTidy]_vars

\* The module ran: one step from "configuring" to "configured".
IsTidyRun == conf.phase = "configuring" /\ conf'.phase = "configured"

\* After the lookup, CLANGTIDY holds a path.
TidyFound(c) == c.CLANGTIDY.def /\ ~IsFalseConstant(c.CLANGTIDY.val)

\* The statement read literally: with the option ON and no executable,
\* CMAKE_CXX_CLANG_TIDY is not set after the module ran.
C29_TidyLeftUnset ==
  [][IsTidyRun =>
       /\ IsFalseConstant(conf.ENABLE_CLANG_TIDY) =>
            /\ conf'.lookups = 0
            /\ conf'.CMAKE_CXX_CLANG_TIDY = conf.CMAKE_CXX_CLANG_TIDY
       /\ (~IsFalseConstant(conf.ENABLE_CLANG_TIDY) /\ ~TidyFound(conf')) =>
            /\ "SEND_ERROR" \in {conf'.messages[i] : i \in 1 .. Len(conf'.messages)}
            /\ conf'.CMAKE_CXX_CLANG_TIDY = Undefined
       /\ conf'.CMAKE_CXX_CLANG_TIDY # conf.CMAKE_CXX_CLANG_TIDY =>
            ~IsFalseConstant(conf.ENABLE_CLANG_TIDY) /\ TidyFound(conf')]_vars

\* C29: when the module runs with the Clang-Tidy option OFF it does no lookup
\* and leaves CMAKE_CXX_CLANG_TIDY as it was; with the option ON and no
\* executable found it reports an error and leaves CMAKE_CXX_CLANG_TIDY as it
\* was (not set, unless the user had given it a value); it changes
\* CMAKE_CXX_CLANG_TIDY only with the option ON and the executable found, and
\* then to a command line that starts with the executable.
C29_TidyOnlyOnRequest ==
  [][IsTidyRun =>
       /\ IsFalseConstant(conf.ENABLE_CLANG_TIDY) =>
            /\ conf'.lookups = 0
            /\ conf'.CLANGTIDY = conf.CLANGTIDY
            /\ conf'.messages = <<>>
            /\ conf'.CMAKE_CXX_CLANG_TIDY = conf.CMAKE_CXX_CLANG_TIDY
       /\ (~IsFalseConstant(conf.ENABLE_CLANG_TIDY) /\ ~TidyFound(conf')) =>
            /\ "SEND_ERROR" \in {conf'.messages[i] : i \in 1 .. Len(conf'.messages)}
            /\ conf'.CMAKE_CXX_CLANG_TIDY = conf.CMAKE_CXX_CLANG_TIDY
       /\ conf'.CMAKE_CXX_CLANG_TIDY # conf.CMAKE_CXX_CLANG_TIDY =>
            ~IsFalseConstant(conf.ENABLE_CLANG_TIDY) /\ TidyFound(conf')
       /\ (~IsFalseConstant(conf.ENABLE_CLANG_TIDY) /\ TidyFound(conf')) =>
            /\ conf'.CMAKE_CXX_CLANG_TIDY.def
            /\ Head(conf'.CMAKE_CXX_CLANG_TIDY.val) = conf'.CLANGTIDY.val
            /\ "SEND_ERROR" \notin {conf'.messages[i] : i \in 1 .. Len(conf'.messages)}]_vars

\* The option is ON, clang-tidy is not installed, the user had set
\* CMAKE_CXX_CLANG_TIDY: the module reported the error and the value is
\* still the user's.
C29_Witness ==
  /\ conf.phase = "configured"
  /\ conf.revision = "clang_tidy"
  /\ conf.ENABLE_CLANG_TIDY = StrON
  /\ ~conf.installed
  /\ conf.CLANGTIDY = Defined(StrClangTidyNotFound)
  /\ conf.lookups = 1
  /\ conf.messages = <<"SEND_ERROR">>
  /\ conf.CMAKE_CXX_CLANG_TIDY = Defined(<<StrUserTidy>>)
====
